---- MODULE Spec2Model ----
(***************************************************************************)
(* Model of the interactive command shell of src/relatorio-5/cli.py        *)
(* (class CliBase): lexer, argument parser, value resolver, type           *)
(* coercion, executor, the built-in commands, and the REPL loop.           *)
(*                                                                         *)
(* A Python str is a sequence of one-character strings.  A Python value is *)
(* a record [t |-> tag, v |-> payload]; the tag is compared before the     *)
(* payload, so values of different Python types are simply unequal.        *)
(* A dict is a sequence of <<key, value>> pairs in insertion order.        *)
(***************************************************************************)
EXTENDS Integers, Sequences, FiniteSets, TLC

(***************************************************************************)
(* Python values                                                           *)
(***************************************************************************)
PyStr(s)  == [t |-> "str",  v |-> s]
PyInt(n)  == [t |-> "int",  v |-> n]
PyBool(b) == [t |-> "bool", v |-> b]
None == [t |-> "none", v |-> 0]
PyList(l) == [t |-> "list", v |-> l]
\* an exception object; v is the name of its class
PyExc(k)  == [t |-> "exc",  v |-> k]
PyDict(d) == [t |-> "dict", v |-> d]
\* a float; v is the text of its literal
PyFloat(s) == [t |-> "float", v |-> s]
\* the dict object self.env itself, as cmd_dumpenv returns it
PyEnvRef == [t |-> "env", v |-> 0]

(***************************************************************************)
(* dict                                                                    *)
(***************************************************************************)
DictHas(d, k) == \E i \in 1..Len(d) : d[i][1] = k

\* d.get(k, default)
DictGet(d, k, default) ==
    IF DictHas(d, k)
    THEN d[CHOOSE i \in 1..Len(d) : d[i][1] = k][2]
    ELSE default

\* d[k] = v : an existing key keeps its position
DictPut(d, k, v) ==
    IF DictHas(d, k)
    THEN [i \in 1..Len(d) |-> IF d[i][1] = k THEN <<k, v>> ELSE d[i]]
    ELSE Append(d, <<k, v>>)

RECURSIVE DictMerge(_, _)
\* a | b : the keys of b take b's value, the others keep a's
DictMerge(a, b) ==
    IF b = <<>> THEN a
    ELSE DictMerge(DictPut(a, b[1][1], b[1][2]), Tail(b))

\* hints.pop(k)
DictPop(d, k) == SelectSeq(d, LAMBDA e : e[1] # k)

(***************************************************************************)
(* Lexer: REGEX_STR and regex_lex                                          *)
(***************************************************************************)
Whitespace == {" ", "\t"}
\* the character `, taken from a string that closes the quotation a ` opens
Backtick == SubSeq("`'", 1, 1)
QuoteChars == {"\"", Backtick, "'"}
Pipe == <<"|">>

\* the first alternative that matched: a position, or 0 for no match
FirstMatch(a, b) == IF a # 0 THEN a ELSE b

RECURSIVE QuotedEnd(_, _, _)
\* q(?:\\.|[^q])*q with the opening quote already consumed: the position
\* after the closing quote the backtracking matcher settles on, 0 if the run
\* does not match.  The star is greedy and tries \\. before [^q]; only when
\* no further iteration leads to a match is the closing quote tried.
QuotedEnd(s, p, q) ==
    IF p > Len(s) THEN 0
    ELSE FirstMatch(
             IF s[p] = "\\" /\ p + 1 <= Len(s) THEN QuotedEnd(s, p + 2, q) ELSE 0,
             FirstMatch(
                 IF s[p] # q THEN QuotedEnd(s, p + 1, q) ELSE 0,
                 IF s[p] = q THEN p + 1 ELSE 0))

\* AtomEnd with the fault of taking a quote character as an ordinary
\* character of a word
AtomEndSplittingQuotes(s, p) ==
    IF p > Len(s) THEN 0
    ELSE IF s[p] \in Whitespace \/ s[p] = "|" THEN 0
    ELSE p + 1

\* one iteration of (?:[^\s"`'|]|"..."|`...`|'...') at p: the position after
\* it, 0 if none matches
AtomEnd(s, p) ==
    IF p > Len(s) THEN 0
    ELSE IF s[p] \in QuoteChars THEN QuotedEnd(s, p + 1, s[p])
    ELSE IF s[p] \in Whitespace \/ s[p] = "|" THEN 0
    ELSE p + 1

RECURSIVE WordEnd(_, _)
RECURSIVE WordEndAfter(_, _, _)
\* (?:...)+ at p, greedy: the position after the last iteration (p if none)
WordEnd(s, p) == WordEndAfter(s, p, AtomEnd(s, p))

\* e is the end of the iteration at p
WordEndAfter(s, p, e) == IF e = 0 THEN p ELSE WordEnd(s, e)

RECURSIVE FindAll(_, _)
RECURSIVE FindAllAfter(_, _, _)
\* REGEX.findall(s) from position p
FindAll(s, p) == IF p > Len(s) THEN <<>> ELSE FindAllAfter(s, p, WordEnd(s, p))

\* e is the end of the word at p (p if no word starts there)
FindAllAfter(s, p, e) ==
    IF e > p THEN <<SubSeq(s, p, e - 1)>> \o FindAll(s, e)
    ELSE IF s[p] = "|" THEN <<Pipe>> \o FindAll(s, p + 1)
    ELSE FindAll(s, p + 1)

regex_lex(s) == FindAll(s, 1)

(***************************************************************************)
(* parse_argv                                                              *)
(***************************************************************************)
RECURSIVE SplitOn(_, _)
\* str.split(c)
SplitOn(s, c) ==
    IF \A i \in 1..Len(s) : s[i] # c THEN <<s>>
    ELSE LET i == CHOOSE j \in 1..Len(s) :
                      s[j] = c /\ \A k \in 1..(j - 1) : s[k] # c
         IN  <<SubSeq(s, 1, i - 1)>> \o SplitOn(SubSeq(s, i + 1, Len(s)), c)

RECURSIVE GroupStages(_, _, _)
\* itertools.groupby(words, z == "|") keeping the groups that are not pipes:
\* cur is the open group, open says whether one is open
GroupStages(words, cur, open) ==
    IF words = <<>> THEN (IF open THEN <<cur>> ELSE <<>>)
    ELSE IF Head(words) = Pipe
         THEN (IF open THEN <<cur>> ELSE <<>>) \o GroupStages(Tail(words), <<>>, FALSE)
         ELSE GroupStages(Tail(words), Append(cur, Head(words)), TRUE)

\* MatchPart with the fault of printing the ordering error for a positional
\* part of the form =value as well
MatchPartWarningEmptyLhs(acc, part, eq, silent) ==
    IF Len(eq) = 1 \/ (Len(eq) = 2 /\ eq[1] = <<>>)
    THEN [acc EXCEPT !.args = Append(@, part),
                     !.errs = IF Len(acc.kwargs) > 0 /\ ~silent THEN @ + 1 ELSE @,
                     !.last_was_kw = Len(eq) = 2]
    ELSE IF Len(eq) = 2
    THEN [acc EXCEPT !.kwargs = DictPut(@, eq[1], eq[2]), !.last_was_kw = TRUE]
    ELSE acc

\* the match statement on eq = part.split("=")
MatchPart(acc, part, eq, silent) ==
    IF Len(eq) = 1
    THEN [acc EXCEPT !.args = Append(@, part),
                     !.errs = IF Len(acc.kwargs) > 0 /\ ~silent THEN @ + 1 ELSE @,
                     !.last_was_kw = FALSE]
    ELSE IF Len(eq) = 2 /\ eq[1] = <<>>
    THEN [acc EXCEPT !.args = Append(@, part), !.last_was_kw = TRUE]
    ELSE IF Len(eq) = 2
    THEN [acc EXCEPT !.kwargs = DictPut(@, eq[1], eq[2]), !.last_was_kw = TRUE]
    ELSE acc

\* the body of the loop over the parts of one stage
ClassifyPart(acc, part, silent) == MatchPart(acc, part, SplitOn(part, "="), silent)

RECURSIVE ClassifyStage(_, _, _)
ClassifyStage(acc, cmd, silent) ==
    IF cmd = <<>> THEN acc
    ELSE ClassifyStage(ClassifyPart(acc, Head(cmd), silent), Tail(cmd), silent)

EmptyStage == [args |-> <<>>, kwargs |-> <<>>, last_was_kw |-> FALSE, errs |-> 0]

\* parse_argv(l, silent): one record per stage; errs counts the ordering
\* errors printed while the stage was parsed
ClassifyStages(groups, silent) ==
    [i \in 1..Len(groups) |-> ClassifyStage(EmptyStage, groups[i], silent)]

parse_argv(l, silent) ==
    ClassifyStages(GroupStages(regex_lex(l), <<>>, FALSE), silent)

(***************************************************************************)
(* Python built-in conversions used by the resolver and the coercion       *)
(***************************************************************************)
DecimalDigits == <<"0", "1", "2", "3", "4", "5", "6", "7", "8", "9">>

IsDigit(c) == \E i \in 1..10 : DecimalDigits[i] = c

DigitValue(c) == (CHOOSE i \in 1..10 : DecimalDigits[i] = c) - 1

\* str.isnumeric(): a non-empty string of numeric characters
\* str.isdecimal(): a non-empty string of decimal digits
IsDecimal(s) == Len(s) > 0 /\ \A i \in 1..Len(s) : IsDigit(s[i])

\* a numeric character that is not a decimal digit: it stands for all of them
SuperscriptTwo == "²"

IsNumeric(s) == Len(s) > 0 /\ \A i \in 1..Len(s) : IsDigit(s[i]) \/ s[i] = SuperscriptTwo

RECURSIVE DigitsValue(_)
DigitsValue(s) ==
    IF s = <<>> THEN 0
    ELSE 10 * DigitsValue(SubSeq(s, 1, Len(s) - 1)) + DigitValue(s[Len(s)])

RECURSIVE NatChars(_)
NatChars(n) ==
    IF n < 10 THEN <<DecimalDigits[n + 1]>>
    ELSE NatChars(n \div 10) \o <<DecimalDigits[(n % 10) + 1]>>

\* str(n) of an int
IntChars(n) == IF n < 0 THEN <<"-">> \o NatChars(-n) ELSE NatChars(n)

\* an int literal as int(str) accepts it: optional sign, then digits
IsIntLiteral(s) ==
    LET body == IF Len(s) > 0 /\ s[1] \in {"+", "-"} THEN Tail(s) ELSE s
    IN  IsDecimal(body)

IntLiteralValue(s) ==
    IF s[1] = "-" THEN -DigitsValue(Tail(s))
    ELSE IF s[1] = "+" THEN DigitsValue(Tail(s))
    ELSE DigitsValue(s)

RECURSIVE StripZeros(_)
\* the digits s without the zeros at their end
StripZeros(s) ==
    IF s # <<>> /\ s[Len(s)] = "0" THEN StripZeros(SubSeq(s, 1, Len(s) - 1)) ELSE s

\* the position of the first "." of s, Len(s) + 1 if it has none
DotAt(s) ==
    IF \E i \in 1..Len(s) : s[i] = "."
    THEN CHOOSE i \in 1..Len(s) : s[i] = "." /\ \A j \in 1..(i - 1) : s[j] # "."
    ELSE Len(s) + 1

\* repr of the float with the integer digits ip and the fraction digits fp
\* (the short decimals of the runs considered here are printed as they are)
FloatChars(ip, fp) ==
    NatChars(DigitsValue(ip)) \o <<".">> \o
        (IF StripZeros(fp) = <<>> THEN <<"0">> ELSE StripZeros(fp))

\* an unsigned decimal as float(str) accepts it: digits with at most one "."
IsUnsignedFloat(s) ==
    /\ \A i \in 1..Len(s) : IsDigit(s[i]) \/ i = DotAt(s)
    /\ \E i \in 1..Len(s) : IsDigit(s[i])

\* a float literal as float(str) accepts it: optional sign, then a decimal
\* (exponents, inf and nan are in no run considered here)
IsFloatLiteral(s) ==
    IsUnsignedFloat(IF Len(s) > 0 /\ s[1] \in {"+", "-"} THEN Tail(s) ELSE s)

UnsignedFloatChars(s) ==
    FloatChars(SubSeq(s, 1, DotAt(s) - 1), SubSeq(s, DotAt(s) + 1, Len(s)))

\* repr(float(s)) of a float literal s
FloatLiteralChars(s) ==
    IF s[1] = "-" THEN <<"-">> \o UnsignedFloatChars(Tail(s))
    ELSE IF s[1] = "+" THEN UnsignedFloatChars(Tail(s))
    ELSE UnsignedFloatChars(s)

Chars_True == <<"T", "r", "u", "e">>
Chars_False == <<"F", "a", "l", "s", "e">>
Chars_false == <<"f", "a", "l", "s", "e">>
Chars_None == <<"N", "o", "n", "e">>

\* bool(x), the truth value of x in a condition
Truthy(x) ==
    CASE x.t = "bool" -> x.v
      [] x.t = "int"  -> x.v # 0
      [] x.t = "str"  -> x.v # <<>>
      [] x.t = "list" -> x.v # <<>>
      [] x.t = "dict" -> x.v # <<>>
      [] x.t = "none" -> FALSE
      [] x.t = "float" -> x.v \notin {<<"0", ".", "0">>, <<"-", "0", ".", "0">>}
      [] OTHER        -> TRUE

\* the text of str(x); the shell applies it to parameter names, which are
\* strings, numbers, booleans or None in every run considered here
StrChars(x) ==
    CASE x.t = "str"  -> x.v
      [] x.t = "int"  -> IntChars(x.v)
      [] x.t = "bool" -> IF x.v THEN Chars_True ELSE Chars_False
      [] x.t = "none" -> Chars_None
      [] x.t = "float" -> x.v
      [] OTHER        -> <<"<">> \o <<x.t>> \o <<">">>

\* the outcome of a call that may raise: raised is "" or the exception class
Ok(x) == [raised |-> "", val |-> x]
Raise(k) == [raised |-> k, val |-> None]

\* the elements that iterating over x gives
Items(x) ==
    CASE x.t = "str"  -> [i \in 1..Len(x.v) |-> PyStr(<<x.v[i]>>)]
      [] x.t = "list" -> x.v
      [] x.t = "dict" -> [i \in 1..Len(x.v) |-> x.v[i][1]]

\* dict(items): each item is a sequence of a key and a value
RECURSIVE DictFrom(_, _)
DictFrom(items, acc) ==
    IF items = <<>> THEN Ok(PyDict(acc))
    ELSE IF Head(items).t \notin {"str", "list", "dict"} THEN Raise("TypeError")
    ELSE IF Len(Head(items).v) # 2 THEN Raise("ValueError")
    ELSE IF Items(Head(items))[1].t \in {"list", "dict"} THEN Raise("TypeError")
    ELSE DictFrom(Tail(items),
                  DictPut(acc, Items(Head(items))[1], Items(Head(items))[2]))

\* ty(arg) for the type ty of a parameter
Construct(ty, x) ==
    CASE ty = "str"  -> Ok(PyStr(StrChars(x)))
      [] ty = "bool" -> Ok(PyBool(Truthy(x)))
      [] ty = "int"  ->
            (CASE x.t = "int"  -> Ok(x)
               [] x.t = "bool" -> Ok(PyInt(IF x.v THEN 1 ELSE 0))
               [] x.t = "str"  -> IF IsIntLiteral(x.v)
                                  THEN Ok(PyInt(IntLiteralValue(x.v)))
                                  ELSE Raise("ValueError")
               [] OTHER        -> Raise("TypeError"))
      [] ty = "float" ->
            (CASE x.t = "float" -> Ok(x)
               [] x.t = "int"   -> Ok(PyFloat(IntChars(x.v) \o <<".", "0">>))
               [] x.t = "bool"  -> Ok(PyFloat(IF x.v THEN <<"1", ".", "0">>
                                                     ELSE <<"0", ".", "0">>))
               [] x.t = "str"   -> IF IsFloatLiteral(x.v)
                                   THEN Ok(PyFloat(FloatLiteralChars(x.v)))
                                   ELSE Raise("ValueError")
               [] OTHER         -> Raise("TypeError"))
      [] ty = "list" ->
            (CASE x.t = "list" -> Ok(x)
               [] x.t = "str"  -> Ok(PyList([i \in 1..Len(x.v) |-> PyStr(<<x.v[i]>>)]))
               [] x.t = "dict" -> Ok(PyList(Items(x)))
               [] OTHER        -> Raise("TypeError"))
      [] ty = "dict" ->
            (CASE x.t = "dict"            -> Ok(x)
               [] x.t \in {"str", "list"} -> DictFrom(Items(x), <<>>)
               [] OTHER                   -> Raise("TypeError"))
      \* typing.Any cannot be instantiated
      [] ty = "Any"  -> Raise("TypeError")
      [] OTHER       -> Raise("TypeError")

(***************************************************************************)
(* apply_args: cleanup_type, convert_type and the binding loops            *)
(***************************************************************************)
is_falsey_str(s) == s = Chars_False \/ s = Chars_false \/ s = <<>>

\* any_startswith(v, c) for a str v
StartsWith(s, c) == Len(s) > 0 /\ s[1] = c

StartsWithQuote(s) == Len(s) > 0 /\ s[1] \in QuoteChars

RECURSIVE Unescaped(_)
\* s with every escape sequence \c replaced by c
Unescaped(s) ==
    IF s = <<>> THEN <<>>
    ELSE IF s[1] = "\\" /\ Len(s) > 1 THEN <<s[2]>> \o Unescaped(SubSeq(s, 3, Len(s)))
    ELSE <<s[1]>> \o Unescaped(Tail(s))

\* StripEnds with the fault of undoing the escapes of what is left
StripEndsUnescaped(s) == Unescaped(SubSeq(s, 2, Len(s) - 1))

\* s[1:-1]
StripEnds(s) == SubSeq(s, 2, Len(s) - 1)

\* The result of cleanup_type and of convert_type:
\*   raised      "" or the class of the exception that left the function
\*   val         the value returned
\*   underscore  had_underscore was set
\*   warned      the undefined-variable warning was printed
\*   invalid     the invalid-value error was printed
Resolved(x) ==
    [raised |-> "", val |-> x, underscore |-> FALSE, warned |-> FALSE, invalid |-> FALSE]

(***************************************************************************)
(* json.loads, on the JSON the shell's tokens can spell: null, true,       *)
(* false, integers, decimal fractions, strings, arrays and objects         *)
(***************************************************************************)
JFail == [ok |-> FALSE, val |-> None, pos |-> 0]
JOk(x, p) == [ok |-> TRUE, val |-> x, pos |-> p]

RECURSIVE JsonSkipWs(_, _)
JsonSkipWs(s, p) ==
    IF p <= Len(s) /\ s[p] \in Whitespace THEN JsonSkipWs(s, p + 1) ELSE p

RECURSIVE DigitsEnd(_, _)
\* the position after the digits that start at p
DigitsEnd(s, p) ==
    IF p <= Len(s) /\ IsDigit(s[p]) THEN DigitsEnd(s, p + 1) ELSE p

JsonLiteralAt(s, p, word) ==
    p + Len(word) - 1 <= Len(s) /\ SubSeq(s, p, p + Len(word) - 1) = word

\* a number whose integer part is s[d..e-1] and whose fraction ends before f
JsonNumberParts(s, p, d, e, f) ==
    IF e = d \/ f = e + 1 THEN JFail
    ELSE IF f > e + 1 THEN JOk(PyFloat(FloatLiteralChars(SubSeq(s, p, f - 1))), f)
    ELSE JOk(PyInt(IntLiteralValue(SubSeq(s, p, e - 1))), e)

\* the end of the fraction (\.\d+)? at e
JsonFractionEnd(s, e) ==
    IF e <= Len(s) /\ s[e] = "." THEN DigitsEnd(s, e + 1) ELSE e

JsonNumberFrom(s, p, d, e) == JsonNumberParts(s, p, d, e, JsonFractionEnd(s, e))

\* the end of the integer part (0|[1-9]\d*) at d
JsonIntegerEnd(s, d) ==
    IF d <= Len(s) /\ s[d] = "0" THEN d + 1 ELSE DigitsEnd(s, d)

\* -?(0|[1-9]\d*)(\.\d+)? at p
JsonNumberAt(s, p) ==
    JsonNumberFrom(s, p, IF s[p] = "-" THEN p + 1 ELSE p,
                   JsonIntegerEnd(s, IF s[p] = "-" THEN p + 1 ELSE p))

RECURSIVE JsonStringRest(_, _, _)
\* the characters of a string up to its closing quote; \" \\ and \/ are the
\* escapes read
JsonStringRest(s, p, acc) ==
    IF p > Len(s) THEN JFail
    ELSE IF s[p] = "\"" THEN JOk(PyStr(acc), p + 1)
    ELSE IF s[p] = "\\"
         THEN IF p + 1 <= Len(s) /\ s[p + 1] \in {"\"", "\\", "/"}
              THEN JsonStringRest(s, p + 2, Append(acc, s[p + 1]))
              ELSE JFail
    ELSE JsonStringRest(s, p + 1, Append(acc, s[p]))

RECURSIVE JsonValueAt(_, _)
RECURSIVE JsonValueFrom(_, _)
RECURSIVE JsonElements(_, _, _)
RECURSIVE JsonMembers(_, _, _)

JsonValueAt(s, p0) == JsonValueFrom(s, JsonSkipWs(s, p0))

\* the value that starts at p, which is not whitespace
JsonValueFrom(s, p) ==
    IF p > Len(s) THEN JFail
    ELSE IF JsonLiteralAt(s, p, <<"n", "u", "l", "l">>) THEN JOk(None, p + 4)
    ELSE IF JsonLiteralAt(s, p, <<"t", "r", "u", "e">>) THEN JOk(PyBool(TRUE), p + 4)
    ELSE IF JsonLiteralAt(s, p, Chars_false) THEN JOk(PyBool(FALSE), p + 5)
    ELSE IF s[p] = "\"" THEN JsonStringRest(s, p + 1, <<>>)
    ELSE IF s[p] = "[" THEN JsonElements(s, JsonSkipWs(s, p + 1), <<>>)
    ELSE IF s[p] = "{" THEN JsonMembers(s, JsonSkipWs(s, p + 1), <<>>)
    ELSE IF s[p] = "-" \/ IsDigit(s[p]) THEN JsonNumberAt(s, p)
    ELSE JFail

\* after an element e of an array, q is the next position that is not
\* whitespace
JsonAfterElement(s, acc, e, q) ==
    IF ~e.ok \/ q > Len(s) THEN JFail
    ELSE IF s[q] = "," THEN JsonElements(s, q + 1, Append(acc, e.val))
    ELSE IF s[q] = "]" THEN JOk(PyList(Append(acc, e.val)), q + 1)
    ELSE JFail

JsonElement(s, acc, e) == JsonAfterElement(s, acc, e, JsonSkipWs(s, e.pos))

\* the elements of an array from p on; acc holds those read
JsonElements(s, p, acc) ==
    IF acc = <<>> /\ p <= Len(s) /\ s[p] = "]" THEN JOk(PyList(<<>>), p + 1)
    ELSE JsonElement(s, acc, JsonValueAt(s, p))

\* after the value e of member k of an object
JsonAfterMember(s, acc, k, e, q) ==
    IF ~e.ok \/ q > Len(s) THEN JFail
    ELSE IF s[q] = ","
         THEN IF JsonSkipWs(s, q + 1) <= Len(s) /\ s[JsonSkipWs(s, q + 1)] = "\""
              THEN JsonMembers(s, JsonSkipWs(s, q + 1), DictPut(acc, k.val, e.val))
              ELSE JFail
    ELSE IF s[q] = "}" THEN JOk(PyDict(DictPut(acc, k.val, e.val)), q + 1)
    ELSE JFail

JsonMemberValue(s, acc, k, e) == JsonAfterMember(s, acc, k, e, JsonSkipWs(s, e.pos))

\* after the key k of a member, c is the position of the colon
JsonAfterKey(s, acc, k, c) ==
    IF k.ok /\ c <= Len(s) /\ s[c] = ":"
    THEN JsonMemberValue(s, acc, k, JsonValueAt(s, c + 1))
    ELSE JFail

JsonMemberKey(s, acc, k) == JsonAfterKey(s, acc, k, JsonSkipWs(s, k.pos))

\* the members of an object from p on; acc holds those read
JsonMembers(s, p, acc) ==
    IF acc = <<>> /\ p <= Len(s) /\ s[p] = "}" THEN JOk(PyDict(<<>>), p + 1)
    ELSE IF p <= Len(s) /\ s[p] = "\""
    THEN JsonMemberKey(s, acc, JsonStringRest(s, p + 1, <<>>))
    ELSE JFail

JsonWhole(s, e) ==
    IF e.ok /\ JsonSkipWs(s, e.pos) = Len(s) + 1 THEN Ok(e.val) ELSE Raise("ValueError")

\* json.loads(s): a malformed document raises JSONDecodeError, a ValueError
json_loads(s) == JsonWhole(s, JsonValueAt(s, 1))

K_SILENT == PyStr(<<"S", "I", "L", "E", "N", "T">>)
K_DEBUG == PyStr(<<"D", "E", "B", "U", "G">>)
K_PROMPT == PyStr(<<"P", "R", "O", "M", "P", "T">>)

\* ResolvedVariable with the fault of ignoring the SILENT flag
ResolvedVariableLoud(value, e) == [Resolved(value) EXCEPT !.warned = (value = None)]

\* the $ branch: value is self.env.get(arg[1:], None)
ResolvedVariable(value, e) ==
    [Resolved(value) EXCEPT
        !.warned = (value = None /\ ~Truthy(DictGet(e, K_SILENT, PyBool(FALSE))))]

\* the numeric branch: int(arg) accepts decimal digits only
ResolvedInt(arg) ==
    IF IsDecimal(arg) THEN Resolved(PyInt(DigitsValue(arg)))
    ELSE [Resolved(None) EXCEPT !.raised = "ValueError"]

\* the ^ branch: r is the outcome of json.loads
ResolvedJson(r) == [Resolved(r.val) EXCEPT !.raised = r.raised]

\* cleanup_type(arg): substitution and conversion to the inferred type, with
\* the session's last result and Environment as they are when it is called
cleanup_type(arg, last, e) ==
    IF arg = <<"_">>
    THEN [Resolved(last) EXCEPT !.underscore = TRUE]
    ELSE IF StartsWith(arg, "$")
    THEN ResolvedVariable(DictGet(e, PyStr(Tail(arg)), None), e)
    ELSE IF StartsWithQuote(arg)
    THEN Resolved(PyStr(StripEnds(arg)))
    ELSE IF StartsWith(arg, "^")
    THEN ResolvedJson(json_loads(IF StartsWithQuote(Tail(arg))
                                 THEN StripEnds(Tail(arg)) ELSE Tail(arg)))
    ELSE IF is_falsey_str(arg)
    THEN Resolved(PyBool(FALSE))
    ELSE IF IsNumeric(arg)
    THEN ResolvedInt(arg)
    ELSE Resolved(PyStr(arg))

\* A declared type as get_type_hints returns it: origin is get_origin(ty)
\* ("" for a plain class and for Any; "Union" for typing.Union[first, ...]),
\* name is the class, or the first argument of a union
Ty(name) == [origin |-> "", name |-> name]
TyGeneric(origin) == [origin |-> origin, name |-> origin]
\* first | ..., a types.UnionType: its origin is not typing.Union and it is
\* not callable
TyUnionType(first) == [origin |-> "UnionType", name |-> first]

\* the object that the value x refers to, self.env being e
Deref(x, e) == IF x = PyEnvRef THEN PyDict(e) ELSE x

\* Coerced with the fault of an except clause that catches every exception
CoercedCatchingAll(c, r) ==
    IF r.raised = "" THEN [c EXCEPT !.val = r.val]
    ELSE [c EXCEPT !.invalid = TRUE]

\* the except clause of convert_type: r is the outcome of ty(arg); a
\* ValueError is reported and the value returned as it was, any other
\* exception leaves the function
Coerced(c, r) ==
    IF r.raised = "" THEN [c EXCEPT !.val = r.val]
    ELSE IF r.raised = "ValueError" THEN [c EXCEPT !.invalid = TRUE]
    ELSE [c EXCEPT !.raised = r.raised]

\* the try block of convert_type for the resolved argument c
Coerce(c, ty, e) ==
    IF c.raised # "" THEN c
    ELSE IF ty.origin = "Union" THEN Coerced(c, Construct(ty.name, Deref(c.val, e)))
    ELSE IF ty = Ty("Any") \/ ty.origin = "tuple" THEN c
    ELSE IF ty.origin = "UnionType" THEN c
    ELSE Coerced(c, Construct(ty.name, Deref(c.val, e)))

\* convert_type(key, ty, arg)
convert_type(ty, arg, last, e) == Coerce(cleanup_type(arg, last, e), ty, e)

\* The state of apply_args while it runs:
\*   hints        the declared parameters not bound yet
\*   conv_args    the positional values, conv_kwargs the keyword values
\*   underscore   had_underscore
\*   warned, invalid   how many warnings and invalid-value errors were printed
\*   raised       "" or the class of the exception that ended it
BindState(hints) ==
    [hints |-> hints, conv_args |-> <<>>, conv_kwargs |-> <<>>, underscore |-> FALSE,
     warned |-> 0, invalid |-> 0, raised |-> ""]

\* what a call c of cleanup_type or convert_type leaves in the state
Note(st, c) ==
    [st EXCEPT !.underscore = @ \/ c.underscore,
               !.warned = IF c.warned THEN @ + 1 ELSE @,
               !.invalid = IF c.invalid THEN @ + 1 ELSE @,
               !.raised = c.raised]

\* the end of a round over kwargs.items(): k is the cleaned key, name the
\* parameter str(key), c the converted value
KeywordBound(st, k, name, c) ==
    IF c.raised # "" THEN Note(st, c)
    ELSE [Note(st, c) EXCEPT !.hints = DictPop(@, name),
                             !.conv_kwargs = DictPut(@, k.val, c.val)]

\* a round over kwargs.items() once the key is cleaned: a key that is not in
\* hints is skipped
KeywordCleaned(st, k, name, kwarg, last, e) ==
    IF k.raised # "" \/ ~DictHas(st.hints, name) THEN Note(st, k)
    ELSE KeywordBound(Note(st, k), k, name,
                      convert_type(DictGet(st.hints, name, None), kwarg, last, e))

KeywordNamed(st, k, kwarg, last, e) ==
    KeywordCleaned(st, k, PyStr(StrChars(k.val)), kwarg, last, e)

\* one round of the loop over kwargs.items()
BindKeyword(st, key, kwarg, last, e) ==
    KeywordNamed(st, cleanup_type(key, last, e), kwarg, last, e)

RECURSIVE BindKeywords(_, _, _, _)
BindKeywords(st, kwargs, last, e) ==
    IF kwargs = <<>> \/ st.raised # "" THEN st
    ELSE BindKeywords(BindKeyword(st, kwargs[1][1], kwargs[1][2], last, e),
                      Tail(kwargs), last, e)

\* conv_args.append(convert_type(...)) for the converted value c
PositionalBound(st, c) ==
    IF c.raised # "" THEN Note(st, c)
    ELSE [Note(st, c) EXCEPT !.conv_args = Append(@, c.val)]

RECURSIVE BindPositionals(_, _, _, _, _)
\* the loop over zip(args, hints.items()), from pair i on
BindPositionals(st, args, i, last, e) ==
    IF st.raised # "" \/ i > Len(args) \/ i > Len(st.hints) THEN st
    ELSE BindPositionals(
             PositionalBound(st, convert_type(st.hints[i][2], args[i], last, e)),
             args, i + 1, last, e)

\* conv_args += args[len(conv_args):] : the surplus tokens, as they were typed
SurplusArgs(conv_args, args) ==
    conv_args \o [i \in 1..(Len(args) - Len(conv_args)) |-> PyStr(args[Len(conv_args) + i])]

\* PipedArgs with the fault of never appending the piped value
PipedArgsDropped(conv_args, underscore, is_piped, last) == conv_args

\* if not had_underscore and is_piped: conv_args.append(self.last_result)
PipedArgs(conv_args, underscore, is_piped, last) ==
    IF ~underscore /\ is_piped THEN Append(conv_args, last) ELSE conv_args

\* the end of apply_args, after the two loops
ArgsBound(st, args, is_piped, last) ==
    IF st.raised # "" THEN st
    ELSE [st EXCEPT
             !.conv_args = PipedArgs(SurplusArgs(@, args), st.underscore, is_piped, last)]

\* apply_args(method, args, kwargs, is_piped)
apply_args(hints, args, kwargs, is_piped, last, e) ==
    ArgsBound(
        BindPositionals(BindKeywords(BindState(hints), kwargs, last, e), args, 1, last, e),
        args, is_piped, last)

(***************************************************************************)
(* The command registry: the cmd_ methods of CliBase, their type hints     *)
(* and their signatures                                                    *)
(***************************************************************************)
N_help == <<"h", "e", "l", "p">>
N_inspect == <<"i", "n", "s", "p", "e", "c", "t">>
N_set == <<"s", "e", "t">>
N_idx == <<"i", "d", "x">>
N_key == <<"k", "e", "y">>
N_echo == <<"e", "c", "h", "o">>
N_dumpenv == <<"d", "u", "m", "p", "e", "n", "v">>
N_saveenv == <<"s", "a", "v", "e", "e", "n", "v">>
N_loadenv == <<"l", "o", "a", "d", "e", "n", "v">>
N_test == <<"t", "e", "s", "t">>
N_exit == <<"e", "x", "i", "t">>
\* cmd_create_book of the subclass Cli of main.py
N_create_book == <<"c", "r", "e", "a", "t", "e", "_", "b", "o", "o", "k">>

P_name == PyStr(<<"n", "a", "m", "e">>)
P_key == PyStr(<<"k", "e", "y">>)
P_value == PyStr(<<"v", "a", "l", "u", "e">>)
P_d == PyStr(<<"d">>)
P_idxs == PyStr(<<"i", "d", "x", "s">>)
P_keys == PyStr(<<"k", "e", "y", "s">>)
P_overwrite == PyStr(<<"o", "v", "e", "r", "w", "r", "i", "t", "e">>)
P_return == PyStr(<<"r", "e", "t", "u", "r", "n">>)
P_title == PyStr(<<"t", "i", "t", "l", "e">>)
P_author == PyStr(<<"a", "u", "t", "h", "o", "r">>)
P_year == PyStr(<<"y", "e", "a", "r">>)
P_price == PyStr(<<"p", "r", "i", "c", "e">>)

\* the default of the name parameter of saveenv and loadenv
F_env_json == <<"e", "n", "v", ".", "j", "s", "o", "n">>

CommandNames ==
    {N_help, N_inspect, N_set, N_idx, N_key, N_echo, N_dumpenv, N_saveenv,
     N_loadenv, N_test, N_exit}

\* get_method(name) is not None
get_method(name) == name \in CommandNames

\* get_type_hints(method): the annotated parameters in order, then the
\* annotated return type; a parameter without annotation has no entry
Hints(name) ==
    CASE name = N_help    -> <<<<P_name, TyUnionType("str")>>>>
      [] name = N_inspect -> <<<<P_name, Ty("str")>>>>
      [] name = N_set     -> <<<<P_key, Ty("str")>>, <<P_value, Ty("Any")>>>>
      [] name = N_idx     -> <<<<P_d, TyGeneric("list")>>, <<P_idxs, Ty("int")>>,
                               <<P_return, TyUnionType("Any")>>>>
      [] name = N_key     -> <<<<P_d, TyGeneric("dict")>>, <<P_keys, TyGeneric("tuple")>>,
                               <<P_return, TyUnionType("Any")>>>>
      [] name = N_echo    -> <<<<P_value, Ty("Any")>>>>
      [] name = N_test    -> <<<<P_value, Ty("Any")>>, <<P_return, Ty("bool")>>>>
      [] name = N_create_book ->
            <<<<P_title, Ty("str")>>, <<P_author, Ty("str")>>, <<P_year, Ty("int")>>,
              <<P_price, Ty("float")>>>>
      [] OTHER            -> <<>>

\* the signature of a method: its named parameters, the defaults of the
\* optional ones, and whether it takes *args
Signature(name) ==
    CASE name = N_help    -> [params |-> <<P_name>>, defaults |-> <<<<P_name, None>>>>,
                              varargs |-> FALSE]
      [] name = N_inspect -> [params |-> <<P_name>>, defaults |-> <<>>, varargs |-> FALSE]
      [] name = N_set     -> [params |-> <<P_key, P_value>>, defaults |-> <<>>,
                              varargs |-> FALSE]
      [] name = N_idx     -> [params |-> <<P_d>>, defaults |-> <<>>, varargs |-> TRUE]
      [] name = N_key     -> [params |-> <<P_d>>, defaults |-> <<>>, varargs |-> TRUE]
      [] name = N_echo    -> [params |-> <<P_value>>, defaults |-> <<>>, varargs |-> FALSE]
      [] name = N_test    -> [params |-> <<P_value>>, defaults |-> <<>>, varargs |-> FALSE]
      [] name = N_saveenv -> [params |-> <<P_name>>,
                              defaults |-> <<<<P_name, PyStr(F_env_json)>>>>,
                              varargs |-> FALSE]
      [] name = N_loadenv -> [params |-> <<P_name, P_overwrite>>,
                              defaults |-> <<<<P_name, PyStr(F_env_json)>>,
                                             <<P_overwrite, PyBool(FALSE)>>>>,
                              varargs |-> FALSE]
      [] name = N_create_book ->
            [params |-> <<P_title, P_author, P_year, P_price>>, defaults |-> <<>>,
             varargs |-> FALSE]
      [] OTHER            -> [params |-> <<>>, defaults |-> <<>>, varargs |-> FALSE]

\* method(*args, **kwargs): the binding of the arguments to the parameters.
\* val is the sequence of the parameters' values, rest the *args tuple.
CallBind(sig, args, kwargs) ==
    LET n == Len(sig.params)
        bad ==
            \/ ~sig.varargs /\ Len(args) > n
            \/ \E i \in 1..Len(kwargs) :
                   \/ kwargs[i][1].t # "str"
                   \/ \A j \in 1..n : sig.params[j] # kwargs[i][1]
            \/ \E j \in 1..n : j <= Len(args) /\ DictHas(kwargs, sig.params[j])
            \/ \E j \in 1..n : /\ j > Len(args)
                               /\ ~DictHas(kwargs, sig.params[j])
                               /\ ~DictHas(sig.defaults, sig.params[j])
    IN  IF bad THEN [raised |-> "TypeError", val |-> <<>>, rest |-> <<>>]
        ELSE [raised |-> "",
              val |-> [j \in 1..n |->
                          IF j <= Len(args) THEN args[j]
                          ELSE DictGet(kwargs, sig.params[j],
                                       DictGet(sig.defaults, sig.params[j], None))],
              rest |-> SubSeq(args, n + 1, Len(args))]

(***************************************************************************)
(* Files and JSON documents                                                *)
(***************************************************************************)
\* A file system is a function from the names of the files that exist to
\* their contents: [ok |-> TRUE, doc |-> the JSON document in it], or
\* [ok |-> FALSE, ...] for text that is not a JSON document.
FileDoc(doc) == [ok |-> TRUE, doc |-> doc]
FileBroken == [ok |-> FALSE, doc |-> None]

WriteFile(files, name, content) ==
    [n \in DOMAIN files \cup {name} |-> IF n = name THEN content ELSE files[n]]

\* the key of a JSON object that json.dump writes for a dict key
JsonKey(k) ==
    CASE k.t = "str"   -> Ok(k)
      [] k.t = "int"   -> Ok(PyStr(IntChars(k.v)))
      [] k.t = "bool"  -> Ok(PyStr(IF k.v THEN <<"t", "r", "u", "e">> ELSE Chars_false))
      [] k.t = "none"  -> Ok(PyStr(<<"n", "u", "l", "l">>))
      [] k.t = "float" -> Ok(PyStr(k.v))
      [] OTHER         -> Raise("TypeError")

RECURSIVE JsonDoc(_)
RECURSIVE JsonDocList(_, _)
RECURSIVE JsonDocDict(_, _)
RECURSIVE JsonDocItem(_, _, _)
RECURSIVE JsonDocMember(_, _, _, _)

\* The value json.load reads back from what json.dump(x, default=_default)
\* writes; _default raises ValueError for every object json cannot encode
\* (the shell holds no bson ObjectId)
JsonDoc(x) ==
    CASE x.t \in {"str", "int", "bool", "none", "float"} -> Ok(x)
      [] x.t = "list" -> JsonDocList(x.v, <<>>)
      [] x.t = "dict" -> JsonDocDict(x.v, <<>>)
      [] OTHER        -> Raise("ValueError")

JsonDocItem(r, l, acc) ==
    IF r.raised # "" THEN r ELSE JsonDocList(l, Append(acc, r.val))

JsonDocList(l, acc) ==
    IF l = <<>> THEN Ok(PyList(acc)) ELSE JsonDocItem(JsonDoc(Head(l)), Tail(l), acc)

JsonDocMember(k, r, d, acc) ==
    IF k.raised # "" THEN k
    ELSE IF r.raised # "" THEN r
    ELSE JsonDocDict(d, DictPut(acc, k.val, r.val))

JsonDocDict(d, acc) ==
    IF d = <<>> THEN Ok(PyDict(acc))
    ELSE JsonDocMember(JsonKey(d[1][1]), JsonDoc(d[1][2]), Tail(d), acc)

(***************************************************************************)
(* The built-in commands                                                   *)
(***************************************************************************)
\* What the call of a command leaves behind: the exception it raised ("" if
\* none), its return value, and the Environment, the files and keep_running
\* after it; entered says that the body of the method was entered
Outcome(raised, ret, e, files, keep) ==
    [raised |-> raised, ret |-> ret, env |-> e, fs |-> files, keep_running |-> keep,
     entered |-> TRUE]

\* d[i]
Subscript(d, i) ==
    CASE d.t \in {"list", "str"} ->
            IF i.t \notin {"int", "bool"} THEN Raise("TypeError")
            ELSE LET n == IF i.t = "bool" THEN (IF i.v THEN 1 ELSE 0) ELSE i.v
                     m == IF n < 0 THEN n + Len(d.v) ELSE n
                 IN  IF m < 0 \/ m >= Len(d.v) THEN Raise("IndexError")
                     ELSE IF d.t = "list" THEN Ok(d.v[m + 1])
                     ELSE Ok(PyStr(<<d.v[m + 1]>>))
      [] d.t = "dict" ->
            IF i.t \in {"list", "dict"} THEN Raise("TypeError")
            ELSE IF DictHas(d.v, i) THEN Ok(DictGet(d.v, i, None))
            ELSE Raise("KeyError")
      [] OTHER -> Raise("TypeError")

RECURSIVE IdxWalk(_, _)
RECURSIVE IdxStep(_, _)
\* the loop of cmd_idx
IdxWalk(d, idxs) ==
    IF idxs = <<>> THEN Ok(d) ELSE IdxStep(Subscript(d, Head(idxs)), Tail(idxs))

\* r is the outcome of d = d[idx]
IdxStep(r, idxs) ==
    IF r.raised # "" \/ r.val.t # "list" THEN r ELSE IdxWalk(r.val, idxs)

RECURSIVE KeyWalk(_, _)
RECURSIVE KeyStep(_, _)
\* the loop of cmd_key
KeyWalk(d, keys) ==
    IF keys = <<>> THEN Ok(d)
    ELSE IF d.t # "dict" THEN Raise("AttributeError")
    ELSE IF Head(keys).t \in {"list", "dict"} THEN Raise("TypeError")
    ELSE KeyStep(DictGet(d.v, Head(keys), None), Tail(keys))

\* r is d.get(key, None)
KeyStep(r, keys) == IF r.t # "dict" THEN Ok(r) ELSE KeyWalk(r, keys)

cmd_help(name, e, files, keep) == Outcome("", None, e, files, keep)

cmd_inspect(name, e, files, keep) ==
    IF name.t = "str" /\ get_method(name.v)
    THEN Outcome("", [t |-> "hints", v |-> name.v], e, files, keep)
    ELSE Outcome("", None, e, files, keep)

\* cmd_set with the fault of not storing the value
CmdSetLost(key, value, e, files, keep) == Outcome("", value, e, files, keep)

cmd_set(key, value, e, files, keep) ==
    IF key.t \in {"list", "dict", "env"}
    THEN Outcome("TypeError", None, e, files, keep)
    ELSE Outcome("", value, DictPut(e, key, value), files, keep)

\* a command that changes nothing and returns, or raises, as r says
Pure(r, e, files, keep) == Outcome(r.raised, r.val, e, files, keep)

cmd_idx(d, idxs, e, files, keep) == Pure(IdxWalk(d, idxs), e, files, keep)

cmd_key(d, keys, e, files, keep) == Pure(KeyWalk(d, keys), e, files, keep)

\* cmd_echo with the fault of storing what it prints in the Environment
CmdEchoStoring(value, e, files, keep) ==
    Outcome("", value, DictPut(e, PyStr(<<"_">>), value), files, keep)

cmd_echo(value, e, files, keep) == Outcome("", value, e, files, keep)

cmd_dumpenv(e, files, keep) == Outcome("", PyEnvRef, e, files, keep)

\* open(name, "w") empties the file before json.dump writes to it, so a
\* dump that fails leaves text that is not a JSON document
\* json.dump(self.env, f) with outcome r, into the opened file
DumpEnv(name, r, e, files, keep) ==
    IF r.raised # ""
    THEN Outcome(r.raised, None, e, WriteFile(files, name.v, FileBroken), keep)
    ELSE Outcome("", name, e, WriteFile(files, name.v, FileDoc(r.val.v)), keep)

\* open(name): a number is taken as a file descriptor, and none but the
\* standard streams is open; any other value that is not a str is refused
OpenRefused(name) == IF name.t \in {"int", "bool"} THEN "OSError" ELSE "TypeError"

cmd_saveenv(name, e, files, keep) ==
    IF name.t # "str" THEN Outcome(OpenRefused(name), None, e, files, keep)
    ELSE IF name.v = <<>> THEN Outcome("FileNotFoundError", None, e, files, keep)
    ELSE DumpEnv(name, JsonDoc(PyDict(e)), e, files, keep)

cmd_loadenv(name, overwrite, e, files, keep) ==
    IF name.t # "str" THEN Outcome(OpenRefused(name), None, e, files, keep)
    ELSE IF name.v \notin DOMAIN files THEN Outcome("FileNotFoundError", None, e, files, keep)
    ELSE IF ~files[name.v].ok THEN Outcome("ValueError", None, e, files, keep)
    ELSE IF Truthy(overwrite) THEN Outcome("", None, files[name.v].doc, files, keep)
    ELSE Outcome("", None, DictMerge(e, files[name.v].doc), files, keep)

cmd_test(value, e, files, keep) ==
    IF value = PyStr(Chars_False) \/ value = PyStr(Chars_false) \/ value = PyStr(<<>>)
    THEN Outcome("", PyBool(FALSE), e, files, keep)
    ELSE Outcome("", PyBool(TRUE), e, files, keep)

\* cmd_exit with the fault of leaving keep_running as it is
CmdExitIgnored(e, files, keep) == Outcome("", None, e, files, keep)

cmd_exit(e, files, keep) == Outcome("", None, e, files, FALSE)

\* the body of the method of command name, with its parameters bound as b
InvokeBound(name, b, e, files, keep) ==
    IF b.raised # "" THEN [Outcome(b.raised, None, e, files, keep) EXCEPT !.entered = FALSE]
    ELSE CASE name = N_help    -> cmd_help(b.val[1], e, files, keep)
           [] name = N_inspect -> cmd_inspect(b.val[1], e, files, keep)
           [] name = N_set     -> cmd_set(b.val[1], b.val[2], e, files, keep)
           [] name = N_idx     -> cmd_idx(b.val[1], b.rest, e, files, keep)
           [] name = N_key     -> cmd_key(b.val[1], b.rest, e, files, keep)
           [] name = N_echo    -> cmd_echo(b.val[1], e, files, keep)
           [] name = N_dumpenv -> cmd_dumpenv(e, files, keep)
           [] name = N_saveenv -> cmd_saveenv(b.val[1], e, files, keep)
           [] name = N_loadenv -> cmd_loadenv(b.val[1], b.val[2], e, files, keep)
           [] name = N_test    -> cmd_test(b.val[1], e, files, keep)
           [] name = N_exit    -> cmd_exit(e, files, keep)

\* method(*args, **kwargs) for the method of command name
Invoke(name, args, kwargs, e, files, keep) ==
    InvokeBound(name, CallBind(Signature(name), args, kwargs), e, files, keep)

(***************************************************************************)
(* exec                                                                    *)
(***************************************************************************)
\* what the shell prints, by kind
MsgUnknown == "error: unknown command"
MsgError == "error"
MsgCommandError == "Command error"
MsgUndefined == "warning: undefined variable"
MsgInvalid == "error: invalid value"
MsgOrdering == "error: positional after keyword"
MsgTrailing == "warning: trailing piping"
MsgResult == "result"
MsgBlank == "blank"
MsgBye == "bye"

Times(msg, n) == [i \in 1..n |-> msg]

\* the call method(*args, **kwargs) a stage made: the command, the arguments
\* passed, whether the body of the method was entered, the exception the
\* call raised ("" if none) and the value it returned; name is empty when
\* the stage made no call
NoCall ==
    [name |-> <<>>, args |-> <<>>, kwargs |-> <<>>, entered |-> FALSE, raised |-> "",
     ret |-> None]

\* CaughtResult with the fault of a single except clause that returns every
\* exception
CaughtResultAny(raised) == PyExc(raised)

\* The except clauses of exec: a TypeError or ValueError is printed and the
\* function returns None; any other Exception is printed and returned
CaughtResult(raised) ==
    IF raised \in {"TypeError", "ValueError"} THEN None ELSE PyExc(raised)

CaughtMessage(raised) ==
    IF raised \in {"TypeError", "ValueError"} THEN MsgError ELSE MsgCommandError

\* the end of exec: a are the applied arguments, o the outcome of the call
Executed(name, a, notes, o) ==
    [ret |-> IF o.raised = "" THEN o.ret ELSE CaughtResult(o.raised),
     env |-> o.env, fs |-> o.fs, keep_running |-> o.keep_running,
     out |-> IF o.raised = "" THEN notes ELSE Append(notes, CaughtMessage(o.raised)),
     call |-> [name |-> name, args |-> a.conv_args, kwargs |-> a.conv_kwargs,
               entered |-> o.entered, raised |-> o.raised, ret |-> o.ret]]

\* exec after apply_args, whose outcome is a
Applied(name, a, e, files, keep) ==
    IF a.raised # ""
    THEN [ret |-> CaughtResult(a.raised), env |-> e, fs |-> files, keep_running |-> keep,
          out |-> Append(Times(MsgUndefined, a.warned) \o Times(MsgInvalid, a.invalid),
                         CaughtMessage(a.raised)),
          call |-> NoCall]
    ELSE Executed(name, a, Times(MsgUndefined, a.warned) \o Times(MsgInvalid, a.invalid),
                  Invoke(name, a.conv_args, a.conv_kwargs, e, files, keep))

(***************************************************************************)
(* completer: the completion function readline calls                       *)
(***************************************************************************)
\* the characters at which readline starts the text to complete (its
\* default, which the shell does not change)
WordBreaks ==
    {" ", "\t", Backtick, "~", "!", "@", "#", "$", "%", "^", "&", "*", "(", ")", "-", "=",
     "+", "[", "{", "]", "}", "\\", "|", ";", ":", "'", "\"", ",", "<", ">", "/", "?"}

\* readline.get_begidx() with the cursor at the end of the line buf: the
\* number of characters up to the last word break
get_begidx(buf) ==
    IF \E i \in 1..Len(buf) : buf[i] \in WordBreaks
    THEN CHOOSE i \in 1..Len(buf) :
             buf[i] \in WordBreaks /\ \A j \in (i + 1)..Len(buf) : buf[j] \notin WordBreaks
    ELSE 0

RECURSIVE LStrip(_)
\* str.lstrip()
LStrip(s) == IF s # <<>> /\ Head(s) \in Whitespace THEN LStrip(Tail(s)) ELSE s

\* s.startswith(p)
IsPrefix(p, s) == Len(p) <= Len(s) /\ SubSeq(s, 1, Len(p)) = p

\* options[state] if state < len(options), else None
Nth(options, state) ==
    IF state < Len(options) THEN Ok(PyStr(options[state + 1])) ELSE Ok(None)

\* the usable names of list_commands(), in the order of dir(self)
list_commands ==
    <<N_dumpenv, N_echo, N_exit, N_help, N_idx, N_inspect, N_key, N_loadenv, N_saveenv,
      N_set, N_test>>

\* the names of inspect.signature(method).parameters, as str
ParameterNames(name) ==
    [j \in 1..Len(Signature(name).params) |-> Signature(name).params[j].v]
        \o (IF name = N_idx THEN <<P_idxs.v>> ELSE IF name = N_key THEN <<P_keys.v>> ELSE <<>>)

root_complete(text, state) ==
    Nth(SelectSeq(list_commands, LAMBDA j : IsPrefix(text, j)), state)

\* completion_help(sig, state, args, kwargs)
completion_help(state, args) ==
    IF Len(args) <= 1
    THEN Nth(SelectSeq(list_commands,
                       LAMBDA d : IsPrefix(IF Len(args) > 0 THEN args[Len(args)] ELSE <<>>, d)),
             state)
    ELSE Ok(None)

\* keys[state][1:] for the keys "$" + name of the Environment that start
\* with value
VariableNames(e, value, state) ==
    Nth(SelectSeq([i \in 1..Len(e) |-> StrChars(e[i][1])],
                  LAMBDA k : IsPrefix(value, <<"$">> \o k)),
        state)

\* the branch of a line that ends in a keyword: value is the value of the
\* last item of kwargs
CompleteKeywordValue(value, state, e) ==
    IF value = <<>> THEN Ok(None)
    ELSE IF StartsWith(value, "$") THEN VariableNames(e, value, state)
    ELSE Ok(None)

\* list(kwargs.items())[-1] raises IndexError on an empty dict
CompleteKeyword(kwargs, state, e) ==
    IF kwargs = <<>> THEN Raise("IndexError")
    ELSE CompleteKeywordValue(kwargs[Len(kwargs)][2], state, e)

\* the end of completer: key is args[-1] or "", idx is len(args) - 1 or 0
CompletePositional(argnames, key, idx, ends_blank, state, e) ==
    IF StartsWith(key, "$") THEN VariableNames(e, key, state)
    ELSE Nth(SelectSeq(SubSeq(argnames, idx + 1, Len(argnames)),
                       LAMBDA a : ends_blank \/ IsPrefix(key, a)),
             state)

\* completer after the custom completion: argnames are the parameters that
\* are not in kwargs, args the positional tokens after the command name
CompleteArguments(argnames, args, kwargs, last_was_kw, ends_blank, state, e) ==
    IF Len(args) = 0 /\ Len(kwargs) = 0 THEN Nth(argnames, state)
    ELSE IF last_was_kw /\ ~ends_blank THEN CompleteKeyword(kwargs, state, e)
    ELSE CompletePositional(argnames,
                            IF Len(args) > 0 THEN args[Len(args)] ELSE <<>>,
                            IF Len(args) > 0 THEN Len(args) - 1 ELSE 0,
                            ends_blank, state, e)

\* completer once the line is parsed: st is the last stage
CompleteStage(st, ends_blank, text, state, e) ==
    IF Len(st.args) = 0 THEN root_complete(text, state)
    ELSE IF Head(st.args) = <<>> \/ ~get_method(Head(st.args)) THEN root_complete(text, state)
    ELSE IF Head(st.args) = N_help THEN completion_help(state, Tail(st.args))
    ELSE CompleteArguments(
             SelectSeq(ParameterNames(Head(st.args)), LAMBDA p : ~DictHas(st.kwargs, p)),
             Tail(st.args), st.kwargs, st.last_was_kw, ends_blank, state, e)

CompleteParsed(cmds, l, text, state, e) ==
    IF Len(cmds) = 0 THEN root_complete(text, state)
    ELSE CompleteStage(cmds[Len(cmds)], l[Len(l)] = " ", text, state, e)

\* completer after line = origline.lstrip(): begidx is the start of text in
\* line
CompleteLine(l, begidx, text, state, e) ==
    IF begidx = 0 THEN root_complete(text, state)
    ELSE CompleteParsed(parse_argv(l, TRUE), l, text, state, e)

\* completer(text, state), buf being readline.get_line_buffer(): raised is
\* "" and val the candidate or None, or raised is the exception
completer(buf, text, state, e) ==
    CompleteLine(LStrip(buf), get_begidx(buf) - (Len(buf) - Len(LStrip(buf))), text,
                 state, e)

\* exec(args, kwargs, is_piped): ret is the value returned; env, fs and
\* keep_running are the state it leaves; out what it printed; call the
\* invocation of the method, if it came to it
exec(args, kwargs, is_piped, last, e, files, keep) ==
    IF ~get_method(Head(args))
    THEN [ret |-> None, env |-> e, fs |-> files, keep_running |-> keep,
          out |-> <<MsgUnknown>>, call |-> NoCall]
    ELSE Applied(Head(args),
                 apply_args(Hints(Head(args)), Tail(args), kwargs, is_piped, last, e),
                 e, files, keep)

(***************************************************************************)
(* The REPL loop: CliBase.run                                              *)
(***************************************************************************)
VARIABLES
    env,               \* self.env
    last_result,       \* self.last_result
    previous_command,  \* self.previous_command: None or a str
    keep_running,      \* self.keep_running
    fs,                \* the files of the working directory
    pc,                \* where run() is: "read", "stage", "print" or "done"
    line,              \* the line that was read
    commands,          \* the parsed stages being executed
    idx,               \* the position in commands of the next stage
    out,               \* what the last step printed
    call,              \* the method call the last step made, or NoCall
    nread,             \* how many lines were read
    last_nonempty,     \* the most recent line read that was not empty, or None
    input,             \* the input of a function checked on its own, or None
    output             \* what that function made of input, or None

vars ==
    <<env, last_result, previous_command, keep_running, fs, pc, line, commands,
      idx, out, call, nread, last_nonempty, input, output>>

\* the state of the shell
shell ==
    <<env, last_result, previous_command, keep_running, fs, pc, line, commands,
      idx, out, call, nread, last_nonempty>>

\* how many lines a session reads
MaxLines == 3

\* a file env.json that a session may find in its directory
SavedDoc == <<<<K_PROMPT, PyStr(<<"$">>)>>, <<PyStr(<<"Y">>), PyInt(2)>>>>

InitialFiles == {<<>>, [n \in {F_env_json} |-> FileDoc(SavedDoc)]}

\* __init__
InitEnv == <<<<K_SILENT, PyBool(FALSE)>>, <<K_DEBUG, PyBool(FALSE)>>,
             <<K_PROMPT, PyStr(<<">", " ">>)>>>>

Init ==
    /\ env = InitEnv
    /\ last_result = None
    /\ previous_command = None
    /\ keep_running = TRUE
    /\ fs \in InitialFiles
    /\ pc = "read"
    /\ line = <<>>
    /\ commands = <<>>
    /\ idx = 1
    /\ out = <<>>
    /\ call = NoCall
    /\ nread = 0
    /\ last_nonempty = None
    /\ input = None
    /\ output = None

RECURSIVE SumSeq(_)
SumSeq(q) == IF q = <<>> THEN 0 ELSE Head(q) + SumSeq(Tail(q))

\* the stages to execute for a line parsed as parsed: an empty parse
\* repeats the previous command, if there is one
StagesToRun(parsed, previous) ==
    IF Len(parsed) = 0 /\ previous # None THEN parse_argv(previous.v, FALSE) ELSE parsed

\* cmds are the stages to execute; skip says that there is nothing to
\* repeat and the loop goes back to input()
StartLine(cmds, skip) ==
    /\ commands' = cmds
    /\ out' = Times(MsgOrdering, SumSeq([j \in 1..Len(cmds) |-> cmds[j].errs]))
    /\ pc' = IF skip THEN "read" ELSE IF Len(cmds) = 0 THEN "print" ELSE "stage"

Parsed(parsed) ==
    StartLine(StagesToRun(parsed, previous_command),
              Len(parsed) = 0 /\ previous_command = None)

\* input() returns l: the line is parsed and the loop over its stages starts
ReadLine(l) ==
    /\ pc = "read"
    /\ nread < MaxLines
    /\ Parsed(parse_argv(l, FALSE))
    /\ line' = l
    /\ idx' = 1
    /\ call' = NoCall
    /\ nread' = nread + 1
    /\ last_nonempty' = IF l = <<>> THEN last_nonempty ELSE PyStr(l)
    /\ UNCHANGED <<env, last_result, previous_command, keep_running, fs>>
    /\ UNCHANGED <<input, output>>

\* input() raises EOFError: the loop is left and the farewell printed
EndOfInput ==
    /\ pc = "read"
    /\ pc' = "done"
    /\ out' = <<MsgBye>>
    /\ call' = NoCall
    /\ UNCHANGED <<env, last_result, previous_command, keep_running, fs, line,
                   commands, idx, nread, last_nonempty>>
    /\ UNCHANGED <<input, output>>

\* Interrupt with the fault of not catching KeyboardInterrupt: run() is left
InterruptUncaught ==
    /\ pc = "read"
    /\ pc' = "done"
    /\ out' = <<MsgBlank>>
    /\ call' = NoCall
    /\ UNCHANGED <<env, last_result, previous_command, keep_running, fs, line,
                   commands, idx, nread, last_nonempty>>
    /\ UNCHANGED <<input, output>>

\* input() raises KeyboardInterrupt: a blank line is printed and the loop
\* goes back to input()
Interrupt ==
    /\ pc = "read"
    /\ pc' = "read"
    /\ out' = <<MsgBlank>>
    /\ call' = NoCall
    /\ UNCHANGED <<env, last_result, previous_command, keep_running, fs, line,
                   commands, idx, nread, last_nonempty>>
    /\ UNCHANGED <<input, output>>

\* StageExecuted with the fault of not saving the value exec returned
StageExecutedUnsaved(r) ==
    /\ last_result' = last_result
    /\ env' = r.env
    /\ fs' = r.fs
    /\ keep_running' = r.keep_running
    /\ out' = r.out
    /\ call' = r.call
    /\ idx' = idx + 1
    /\ pc' = IF idx < Len(commands) THEN "stage" ELSE "print"

\* self.last_result = self.exec(...), where r is what exec did
StageExecuted(r) ==
    /\ last_result' = r.ret
    /\ env' = r.env
    /\ fs' = r.fs
    /\ keep_running' = r.keep_running
    /\ out' = r.out
    /\ call' = r.call
    /\ idx' = idx + 1
    /\ pc' = IF idx < Len(commands) THEN "stage" ELSE "print"

\* RunStage with the fault of ending the loop over the stages at an unknown
\* command
RunStageHaltingOnUnknown ==
    /\ pc = "stage"
    /\ IF Len(commands[idx].args) = 0
       THEN /\ out' = <<MsgTrailing>>
            /\ pc' = "print"
            /\ call' = NoCall
            /\ UNCHANGED <<env, last_result, keep_running, fs, idx>>
       ELSE IF ~get_method(Head(commands[idx].args))
       THEN /\ out' = <<MsgUnknown>>
            /\ pc' = "print"
            /\ call' = NoCall
            /\ last_result' = None
            /\ idx' = idx + 1
            /\ UNCHANGED <<env, keep_running, fs>>
       ELSE StageExecuted(exec(commands[idx].args, commands[idx].kwargs, idx > 1,
                               last_result, env, fs, keep_running))
    /\ UNCHANGED <<previous_command, line, commands, nread, last_nonempty>>
    /\ UNCHANGED <<input, output>>

\* one round of the loop over the stages: a stage without positional
\* argument ends the loop, any other is executed and its return value saved
RunStage ==
    /\ pc = "stage"
    /\ IF Len(commands[idx].args) = 0
       THEN /\ out' = <<MsgTrailing>>
            /\ pc' = "print"
            /\ call' = NoCall
            /\ UNCHANGED <<env, last_result, keep_running, fs, idx>>
       ELSE StageExecuted(exec(commands[idx].args, commands[idx].kwargs, idx > 1,
                               last_result, env, fs, keep_running))
    /\ UNCHANGED <<previous_command, line, commands, nread, last_nonempty>>
    /\ UNCHANGED <<input, output>>

\* after the loop over the stages: the last result is printed, the line is
\* saved as the previous command, and the while condition is tested
PrintResult ==
    /\ pc = "print"
    /\ previous_command' = PyStr(line)
    /\ out' = IF keep_running THEN <<MsgResult>> ELSE <<MsgResult, MsgBye>>
    /\ pc' = IF keep_running THEN "read" ELSE "done"
    /\ call' = NoCall
    /\ UNCHANGED <<env, last_result, keep_running, fs, line, commands, idx, nread,
                   last_nonempty>>
    /\ UNCHANGED <<input, output>>

\* The lines a session may read, each written as the characters typed
\* (the empty line)
L_empty == <<>>
\* echo 5
L_echo_5 == <<"e", "c", "h", "o", " ", "5">>
\* set X 10
L_set_X_10 == <<"s", "e", "t", " ", "X", " ", "1", "0">>
\* echo $X
L_echo_X == <<"e", "c", "h", "o", " ", "$", "X">>
\* echo _
L_echo_last == <<"e", "c", "h", "o", " ", "_">>
\* test $X | set X _ | set _ $X
L_test_set_set == <<"t", "e", "s", "t", " ", "$", "X", " ", "|", " ", "s", "e", "t", " ", "X", " ", "_", " ", "|", " ", "s", "e", "t", " ", "_", " ", "$", "X">>
\* echo 1 | echo
L_echo_1_echo == <<"e", "c", "h", "o", " ", "1", " ", "|", " ", "e", "c", "h", "o">>
\* echo 1 | set X
L_echo_1_set_X == <<"e", "c", "h", "o", " ", "1", " ", "|", " ", "s", "e", "t", " ", "X">>
\* echo 1 | echo _=2
L_echo_1_echo_kw == <<"e", "c", "h", "o", " ", "1", " ", "|", " ", "e", "c", "h", "o", " ", "_", "=", "2">>
\* nope | test
L_nope_test == <<"n", "o", "p", "e", " ", "|", " ", "t", "e", "s", "t">>
\* exit | test
L_exit_test == <<"e", "x", "i", "t", " ", "|", " ", "t", "e", "s", "t">>
\* test False
L_test_False == <<"t", "e", "s", "t", " ", "F", "a", "l", "s", "e">>
\* test false
L_test_false == <<"t", "e", "s", "t", " ", "f", "a", "l", "s", "e">>
\* test ""
L_test_empty == <<"t", "e", "s", "t", " ", "\"", "\"">>
\* test x
L_test_x == <<"t", "e", "s", "t", " ", "x">>
\* loadenv
L_loadenv == <<"l", "o", "a", "d", "e", "n", "v">>
\* loadenv overwrite=True
L_loadenv_kw == <<"l", "o", "a", "d", "e", "n", "v", " ", "o", "v", "e", "r", "w", "r", "i", "t", "e", "=", "T", "r", "u", "e">>
\* loadenv env.json True
L_loadenv_True == <<"l", "o", "a", "d", "e", "n", "v", " ", "e", "n", "v", ".", "j", "s", "o", "n", " ", "T", "r", "u", "e">>
\* loadenv env.json False
L_loadenv_False == <<"l", "o", "a", "d", "e", "n", "v", " ", "e", "n", "v", ".", "j", "s", "o", "n", " ", "F", "a", "l", "s", "e">>
\* loadenv f
L_loadenv_f == <<"l", "o", "a", "d", "e", "n", "v", " ", "f">>
\* saveenv
L_saveenv == <<"s", "a", "v", "e", "e", "n", "v">>
\* loadenv f | set E _
L_loadenv_f_set == <<"l", "o", "a", "d", "e", "n", "v", " ", "f", " ", "|", " ", "s", "e", "t", " ", "E", " ", "_">>
\* loadenv f | saveenv
L_loadenv_f_saveenv == <<"l", "o", "a", "d", "e", "n", "v", " ", "f", " ", "|", " ", "s", "a", "v", "e", "e", "n", "v">>
\* echo
L_echo == <<"e", "c", "h", "o">>
\* x=1 | echo 2
L_kw_echo == <<"x", "=", "1", " ", "|", " ", "e", "c", "h", "o", " ", "2">>
\* idx a b
L_idx_a_b == <<"i", "d", "x", " ", "a", " ", "b">>

\* help
L_help == <<"h", "e", "l", "p">>
\* inspect set
L_inspect_set == <<"i", "n", "s", "p", "e", "c", "t", " ", "s", "e", "t">>
\* dumpenv
L_dumpenv == <<"d", "u", "m", "p", "e", "n", "v">>
\* dumpenv | key _ PROMPT
L_dumpenv_key == <<"d", "u", "m", "p", "e", "n", "v", " ", "|", " ", "k", "e", "y", " ", "_", " ", "P", "R", "O", "M", "P", "T">>

\* |
L_pipe == <<"|">>
\* (a blank)
L_blank == <<" ">>
\* x=1
L_kw == <<"x", "=", "1">>

Lines ==
    {L_empty, L_echo_5, L_set_X_10, L_echo_X, L_echo_last,
     L_test_set_set, L_echo_1_echo, L_echo_1_set_X, L_echo_1_echo_kw, L_nope_test,
     L_exit_test, L_test_False, L_test_false, L_test_empty, L_test_x,
     L_loadenv, L_loadenv_kw, L_loadenv_True, L_loadenv_False, L_loadenv_f,
     L_saveenv, L_loadenv_f_set, L_loadenv_f_saveenv, L_echo, L_kw_echo,
     L_idx_a_b, L_help, L_inspect_set, L_dumpenv, L_dumpenv_key, L_pipe, L_blank, L_kw}

Next ==
    \/ \E l \in Lines : ReadLine(l)
    \/ EndOfInput
    \/ Interrupt
    \/ RunStage
    \/ PrintResult

Spec == Init /\ [][Next]_vars

(***************************************************************************)
(* The properties                                                          *)
(***************************************************************************)
\* the stage at idx is about to be executed (it has a command name)
StageRuns == pc = "stage" /\ Len(commands[idx].args) > 0

Underscore == <<"_">>
Var_X == <<"$", "X">>
Name_X == PyStr(<<"X">>)

\* C1: an empty line, read when an earlier line of the session was not
\* empty, is parsed and executed as the most recent line that was not empty,
\* also when the line read just before it was empty too
EmptyLineRepeatsLastNonEmpty ==
    [][(pc = "read" /\ nread' = nread + 1 /\ line' = <<>> /\ last_nonempty # None)
          => (commands' = parse_argv(last_nonempty.v, FALSE) /\ pc' = "stage")]_vars

\* one of the stage's arguments is the token _ : a positional argument or
\* the value of a keyword argument
HasUnderscoreArgument(st) ==
    \/ \E i \in 2..Len(st.args) : st.args[i] = Underscore
    \/ \E i \in 1..Len(st.kwargs) : st.kwargs[i][2] = Underscore

\* a keyword argument of the stage is named _
HasUnderscoreKeyword(st) == \E i \in 1..Len(st.kwargs) : st.kwargs[i][1] = Underscore

\* the call made in this step passed the result of the stage before as its
\* last positional argument, after the stage's own positional arguments
PipedResultLast ==
    /\ Len(call'.args) = Len(commands[idx].args)
    /\ call'.args[Len(call'.args)] = last_result

\* C2 (as claimed): in a | b where none of b's arguments is the token _, the
\* handler of b is called with a's result appended as its last positional
\* argument
PipedResultAppended ==
    [][(StageRuns /\ idx > 1 /\ ~HasUnderscoreArgument(commands[idx]) /\ call' # NoCall)
          => PipedResultLast]_vars

\* C2 (amended): in a | b where none of b's arguments is the token _ and no
\* keyword argument of b is named _, whenever the handler of b is called it
\* is called with a's result appended as its last positional argument
PipedResultAppendedUnlessNamed ==
    [][(/\ StageRuns /\ idx > 1 /\ call' # NoCall
        /\ ~HasUnderscoreArgument(commands[idx])
        /\ ~HasUnderscoreKeyword(commands[idx]))
          => PipedResultLast]_vars

\* C2 witness: echo 1 | set X called set with X and then the piped 1
PipedResultAppendedSeen ==
    /\ line = L_echo_1_set_X
    /\ call.name = N_set
    /\ call.entered
    /\ call.args = <<Name_X, PyInt(1)>>

\* the stage at idx is about to be executed and names no registered command
UnknownStage == StageRuns /\ ~get_method(Head(commands[idx].args))

\* C3 (as claimed): a stage that names an unregistered command reports the
\* error and ends the line's pipeline: no later stage of the line is executed
UnknownCommandHaltsLine ==
    [][UnknownStage => (out' = <<MsgUnknown>> /\ pc' = "print")]_vars

\* C3 (amended): a stage that names an unregistered command reports the
\* error, calls nothing and has the result None; the later stages of the
\* line are still executed in order; the unknown command does not stop the
\* loop, which reads the next line unless exit was executed on that line
UnknownCommandYieldsNone ==
    [][/\ UnknownStage =>
            /\ out' = <<MsgUnknown>>
            /\ call' = NoCall
            /\ last_result' = None
            /\ idx' = idx + 1
            /\ pc' = IF idx < Len(commands) THEN "stage" ELSE "print"
            /\ UNCHANGED <<env, keep_running, fs>>
       /\ (pc = "print" /\ keep_running) => pc' = "read"]_vars

\* C3 witness: in nope | test the stage after the unknown command was
\* executed, with the None that the unknown command left
StageAfterUnknownSeen ==
    /\ line = L_nope_test
    /\ call.name = N_test
    /\ call.args = <<None>>
    /\ last_result = PyBool(TRUE)

ExitEndsLoopAfterItsLine ==
    [][/\ (call'.name = N_exit /\ call'.entered) => ~keep_running'
       /\ ~keep_running => ~keep_running'
       /\ (~keep_running /\ StageRuns) =>
            /\ idx' = idx + 1
            /\ pc' = IF idx < Len(commands) THEN "stage" ELSE "print"
       /\ (~keep_running /\ pc = "print") => (pc' = "done" /\ out'[1] = MsgResult)
       /\ ~keep_running => nread' = nread]_vars

\* C5 witness: exit | test ended the session after test, the stage after
\* exit, was called and returned
StageAfterExitSeen ==
    /\ pc = "done"
    /\ ~keep_running
    /\ line = L_exit_test
    /\ last_result = PyBool(TRUE)

\* the call made in this step entered the handler, which raised an error
HandlerRaised == call'.entered /\ call'.raised # ""

\* C6 (as claimed): every error raised inside a handler, whatever its kind,
\* becomes the result of the stage: the last result is the error itself
HandlerErrorIsResult ==
    [][HandlerRaised => last_result' = PyExc(call'.raised)]_vars

\* C6 (amended): an error raised inside a handler is caught by exec and the
\* loop goes on: a TypeError or ValueError is reported and the result of the
\* stage is None; an error of any other kind is reported as a command error
\* and is the result of the stage
HandlerErrorCaughtByKind ==
    [][HandlerRaised =>
          /\ last_result' = IF call'.raised \in {"TypeError", "ValueError"}
                            THEN None ELSE PyExc(call'.raised)
          /\ out'[Len(out')] = IF call'.raised \in {"TypeError", "ValueError"}
                               THEN MsgError ELSE MsgCommandError
          /\ pc' \in {"stage", "print"}
          /\ keep_running' = keep_running]_vars

\* C6 witness: in loadenv f | saveenv the handler of saveenv raised a
\* TypeError and the result of the stage is None
HandlerTypeErrorSeen ==
    /\ line = L_loadenv_f_saveenv
    /\ call.name = N_saveenv
    /\ call.entered
    /\ call.raised = "TypeError"
    /\ last_result = None

\* the stage passes _ as the value of echo or test, or as the value of set
UnderscoreValue(st) ==
    /\ st.kwargs = <<>>
    /\ \/ st.args \in {<<N_echo, Underscore>>, <<N_test, Underscore>>}
       \/ Len(st.args) = 3 /\ st.args[1] = N_set /\ st.args[3] = Underscore

\* the value parameter of the call made in this step
ValuePassed == call'.args[Len(call'.args)]

\* C7: the stages of a line are executed one at a time from left to right,
\* and after each the last result is the value the stage returned; so _ in a
\* later stage is the value the stage before returned, and _ in the first
\* stage is the last result the line before left
StagesRunLeftToRight ==
    [][/\ (pc = "read" /\ pc' = "stage") => idx' = 1
       /\ StageRuns => idx' = idx + 1
       /\ (StageRuns /\ call' # NoCall /\ call'.raised = "") => last_result' = call'.ret
       /\ ~StageRuns => last_result' = last_result
       /\ (StageRuns /\ UnderscoreValue(commands[idx])) =>
            /\ call' # NoCall
            /\ ValuePassed = last_result
            /\ (idx > 1 /\ call # NoCall /\ call.raised = "") => ValuePassed = call.ret]_vars

\* C7 witness: in test $X | set X _ | set _ $X the second stage received the
\* True that the first returned
UnderscoreOfStageBeforeSeen ==
    /\ line = L_test_set_set
    /\ idx = 3
    /\ call.name = N_set
    /\ call.args = <<Name_X, PyBool(TRUE)>>
    /\ last_result = PyBool(TRUE)

\* the stage passes $X as the value of echo or test, or as the value of set
VariableValue(st) ==
    /\ st.kwargs = <<>>
    /\ \/ st.args \in {<<N_echo, Var_X>>, <<N_test, Var_X>>}
       \/ Len(st.args) = 3 /\ st.args[1] = N_set /\ st.args[3] = Var_X

\* C8: $X is looked up in the Environment when its stage is executed: a
\* stage that passes $X receives the value X has then, set X v gives X the
\* value v, and echo $X on the line after set X 10 gives 10
VariableResolvedAtExecution ==
    [][/\ (StageRuns /\ VariableValue(commands[idx])) =>
            /\ call' # NoCall
            /\ call'.args[Len(commands[idx].args) - 1] = DictGet(env, Name_X, None)
       /\ (call'.name = N_set /\ call'.entered /\ call'.raised = ""
               /\ Len(call'.args) = 2) =>
            DictGet(env', call'.args[1], None) = call'.args[2]
       /\ (pc = "print" /\ line = L_echo_X /\ previous_command = PyStr(L_set_X_10)) =>
            last_result = PyInt(10)]_vars

\* C8 witness: the first line of a session is test $X | set X _ | set _ $X;
\* its first stage found X undefined and its last stage received as $X the
\* True that the second stage had stored
VariableChangedWithinLineSeen ==
    /\ line = L_test_set_set
    /\ nread = 1
    /\ pc = "print"
    /\ call.name = N_set
    /\ call.entered
    /\ call.args = <<PyStr(Chars_True), PyBool(TRUE)>>

\* C9: at the prompt test "", test False and test false return False, and
\* test of another value returns True
TestFalseValues ==
    pc = "print" =>
        /\ line \in {L_test_empty, L_test_False, L_test_false} => last_result = PyBool(FALSE)
        /\ line = L_test_x => last_result = PyBool(TRUE)

\* the file env.json holds a JSON document
SavedFileReadable == F_env_json \in DOMAIN fs /\ fs[F_env_json].ok

\* C10: loadenv from the command line replaces the Environment by the file's
\* exactly when overwrite is true, given by position or as overwrite=True;
\* with overwrite false or left out the keys of the file take the file's
\* value and the other keys keep theirs
LoadenvOverwriteArgument ==
    [][(StageRuns /\ idx = 1 /\ SavedFileReadable) =>
          /\ line \in {L_loadenv_True, L_loadenv_kw} => env' = fs[F_env_json].doc
          /\ line \in {L_loadenv, L_loadenv_False} =>
                env' = DictMerge(env, fs[F_env_json].doc)]_vars

(***************************************************************************)
(* One line in a shell of its own                                          *)
(***************************************************************************)
\* a shell that has read nothing yet, with the files it finds
ShellStarted(files) ==
    /\ env = InitEnv
    /\ last_result = None
    /\ previous_command = None
    /\ keep_running = TRUE
    /\ fs = files
    /\ pc = "read"
    /\ line = <<>>
    /\ commands = <<>>
    /\ idx = 1
    /\ out = <<>>
    /\ call = NoCall
    /\ nread = 0
    /\ last_nonempty = None

\* what exec does with the first stage of the line l in a shell whose
\* Environment is e and whose directory holds files
Ran(l, e, files) ==
    exec(parse_argv(l, FALSE)[1].args, parse_argv(l, FALSE)[1].kwargs, FALSE,
         None, e, files, TRUE)

(***************************************************************************)
(* saveenv in one shell, loadenv in a new one                              *)
(***************************************************************************)
K_X == PyStr(<<"X">>)

\* the values a saved Environment holds: all of them serializable
SavedValues == {PyBool(TRUE), PyInt(1), PyStr(<<"$">>)}

\* the Environments over the keys ks, each key absent or bound to a value
RECURSIVE Environments(_)
Environments(ks) ==
    IF ks = <<>> THEN {<<>>}
    ELSE LET rest == Environments(Tail(ks))
         IN  rest \cup {<<<<Head(ks), v>>>> \o r : v \in SavedValues, r \in rest}

SavedEnvironments == Environments(<<K_SILENT, K_DEBUG, K_PROMPT, K_X>>)

InitSaved ==
    /\ ShellStarted(<<>>)
    /\ input \in SavedEnvironments
    /\ output = None

\* a shell whose Environment is input runs saveenv, then a new shell in the
\* same directory runs the line l; output is the Environment of the new shell
SaveThenLoad(l) ==
    /\ output = None
    /\ output' = [line |-> l,
                  env |-> Ran(l, InitEnv, Ran(L_saveenv, input, <<>>).fs).env]
    /\ UNCHANGED <<shell, input>>

NextSaved == \E l \in {L_loadenv_kw, L_loadenv_True} : SaveThenLoad(l)

SpecSaved == InitSaved /\ [][NextSaved]_vars

\* the dicts d and e have the same keys with the same values
SameDict(d, e) ==
    /\ \A i \in 1..Len(d) : DictHas(e, d[i][1]) /\ DictGet(e, d[i][1], None) = d[i][2]
    /\ \A i \in 1..Len(e) : DictHas(d, e[i][1])

\* C11: saveenv in a shell whose Environment is E, then loadenv overwrite=True
\* in a new shell, leaves the new shell's Environment equal to E
SaveLoadRoundTrip ==
    (output # None /\ output.line = L_loadenv_kw) => SameDict(output.env, input)

\* the same with the flag given by position (loadenv env.json True): this
\* round trip holds
SaveLoadRoundTripPositional ==
    (output # None /\ output.line = L_loadenv_True) => SameDict(output.env, input)

(***************************************************************************)
(* Properties of saveenv and of the Environment                            *)
(***************************************************************************)
\* the step called the handler of saveenv, and json.dump met a value that
\* it cannot serialize
SaveFailed == call'.name = N_saveenv /\ call'.entered /\ call'.raised = "ValueError"

\* C12: when saveenv meets a value that cannot be serialized, the save
\* fails, the Environment is unchanged, and a file that already existed at
\* the target path keeps its previous contents
FailedSaveKeepsFile ==
    [][SaveFailed =>
          /\ last_result' = None
          /\ env' = env
          /\ \A n \in DOMAIN fs : fs'[n] = fs[n]]_vars

\* the part of C12 that holds: the save fails and the Environment is unchanged
FailedSaveKeepsEnvironment ==
    [][SaveFailed => last_result' = None /\ env' = env]_vars

\* the step called the handler of set or of loadenv
EnvironmentWritten == call'.entered /\ call'.name \in {N_set, N_loadenv}

\* C13: the Environment changes only when set or loadenv executes: reading
\* and parsing a line, resolving and coercing arguments, an empty or failed
\* line, and every other built-in leave it unchanged, and set changes the
\* variable it names only; so a value that set wrote stays until set or
\* loadenv replaces it
EnvironmentChangesBySetOrLoadenv ==
    [][/\ EnvironmentWritten \/ env' = env
       /\ (call'.entered /\ call'.name = N_set) =>
              \A i \in 1..Len(env) :
                  env[i][1] # call'.args[1] =>
                      DictGet(env', env[i][1], None) = env[i][2]]_vars

\* a later line has run dumpenv and key while X holds what set wrote
SetValueKeptSeen ==
    /\ call.name = N_key
    /\ call.entered
    /\ DictGet(env, Name_X, None) = PyInt(10)

(***************************************************************************)
(* parse_argv on its own: every short line over a few characters           *)
(***************************************************************************)
\* the longest line parsed
MaxLineLen == 6

LineChars == {"a", "=", "|", " "}

\* the texts of at most n characters out of chars
RECURSIVE Texts(_, _)
Texts(chars, n) ==
    IF n = 0 THEN {<<>>}
    ELSE LET shorter == Texts(chars, n - 1)
         IN  shorter \cup {Append(t, c) : t \in shorter, c \in chars}

InitParse ==
    /\ ShellStarted(<<>>)
    /\ input \in Texts(LineChars, MaxLineLen)
    /\ output = None

\* self.parse_argv(input, silent)
ParseLine(silent) ==
    /\ output = None
    /\ output' = [silent |-> silent, commands |-> parse_argv(input, silent)]
    /\ UNCHANGED <<shell, input>>

\* run() parses the line it read
ParseForExecution == ParseLine(FALSE)

\* completer() parses the line being typed
ParseForCompletion == ParseLine(TRUE)

NextParse == ParseForExecution \/ ParseForCompletion

SpecParse == InitParse /\ [][NextParse]_vars

\* the words of the line that was parsed, and its stages as parse_argv
\* groups them
Words == regex_lex(input)
Stages == GroupStages(Words, <<>>, FALSE)

\* the words between the pipes of the line, the empty runs included
Segments == SplitOn(Words, Pipe)

\* C14: a line with an empty stage (two consecutive pipes, a leading pipe or
\* a trailing pipe) yields an empty parsed stage at that position, where the
\* executor reports the trailing-piping warning and stops
EmptyStageKept ==
    (output # None /\ \E k \in 1..Len(Segments) : Segments[k] = <<>> /\ Len(Segments) > 1)
        => /\ Len(output.commands) = Len(Segments)
           /\ \A k \in 1..Len(Segments) :
                  Segments[k] = <<>> =>
                      /\ output.commands[k].args = <<>>
                      /\ output.commands[k].kwargs = <<>>

\* what parse_argv does with such a line: the empty runs are left out
EmptyStageDropped ==
    output # None =>
        /\ Len(output.commands) = Len(SelectSeq(Segments, LAMBDA g : g # <<>>))
        /\ \A k \in 1..Len(output.commands) :
               Len(output.commands[k].args) + Len(output.commands[k].kwargs) = 0
                   => \A j \in 1..Len(Stages[k]) :
                          Len(SplitOn(Stages[k][j], "=")) > 2

\* the classification that C19 states, by the first = of a token
HasEq(tok) == \E i \in 1..Len(tok) : tok[i] = "="
FirstEq(tok) == CHOOSE i \in 1..Len(tok) : tok[i] = "=" /\ \A k \in 1..(i - 1) : tok[k] # "="
IsKeywordToken(tok) == HasEq(tok) /\ tok[1] # "="
IsPositionalToken(tok) == ~IsKeywordToken(tok)

RECURSIVE KeywordsOf(_, _)
KeywordsOf(cmd, acc) ==
    IF cmd = <<>> THEN acc
    ELSE IF IsKeywordToken(Head(cmd))
    THEN KeywordsOf(Tail(cmd),
                    DictPut(acc, SubSeq(Head(cmd), 1, FirstEq(Head(cmd)) - 1),
                            SubSeq(Head(cmd), FirstEq(Head(cmd)) + 1, Len(Head(cmd)))))
    ELSE KeywordsOf(Tail(cmd), acc)

\* C19: every token is classified by a single split on its first =: without
\* = or with an empty left-hand side it is positional (the whole token), with
\* a non-empty left-hand side it is a keyword whose value is all the text
\* after the first =; no token is dropped and the positional order is kept
TokensSplitOnFirstEquals ==
    output # None =>
        \A k \in 1..Len(Stages) :
            /\ output.commands[k].args = SelectSeq(Stages[k], IsPositionalToken)
            /\ output.commands[k].kwargs = KeywordsOf(Stages[k], <<>>)

\* the tokens that parse_argv keeps: a token with two or more = matches no
\* case and is left out
EqCount(tok) == Len(SplitOn(tok, "=")) - 1
IsKeptKeyword(tok) == EqCount(tok) = 1 /\ tok[1] # "="
IsKeptPositional(tok) == EqCount(tok) = 0 \/ (EqCount(tok) = 1 /\ tok[1] = "=")

\* how many of the tokens of cmd satisfy Late(cmd, j)
CountAt(cmd, Late(_, _)) == Cardinality({j \in 1..Len(cmd) : Late(cmd, j)})

\* token j of cmd is positional and comes after a keyword token (as C20
\* states it)
PositionalAfterKeyword(cmd, j) ==
    IsPositionalToken(cmd[j]) /\ \E i \in 1..(j - 1) : IsKeywordToken(cmd[i])

\* token j of cmd has no = and comes after a keyword token that was kept
PlainAfterKeptKeyword(cmd, j) ==
    EqCount(cmd[j]) = 0 /\ \E i \in 1..(j - 1) : IsKeptKeyword(cmd[i])

\* C20 (as claimed): in a line parsed for execution every positional token
\* that comes after a keyword token of its stage raises the ordering
\* warning, a positional token of the form =value included, and is still
\* added to the positional arguments
OrderingWarnedForEveryPositional ==
    (output # None /\ ~output.silent) =>
        \A k \in 1..Len(Stages) :
            /\ output.commands[k].errs = CountAt(Stages[k], PositionalAfterKeyword)
            /\ \A j \in 1..Len(Stages[k]) :
                   PositionalAfterKeyword(Stages[k], j) =>
                       \E i \in 1..Len(output.commands[k].args) :
                           output.commands[k].args[i] = Stages[k][j]

\* C20 (amended): in a line parsed for execution every token without = that
\* comes after a keyword token of its stage (a token with a single = and a
\* non-empty left-hand side) raises the ordering warning and is still added
\* to the positional arguments; a positional token of the form =value is
\* added without a warning
OrderingWarnedForPlainPositional ==
    (output # None /\ ~output.silent) =>
        \A k \in 1..Len(Stages) :
            /\ output.commands[k].errs = CountAt(Stages[k], PlainAfterKeptKeyword)
            /\ output.commands[k].args = SelectSeq(Stages[k], IsKeptPositional)

\* the line `a= a =` was parsed for execution: one warning, for a, and both
\* a and = are positional arguments
OrderingWarnedSeen ==
    /\ output # None
    /\ ~output.silent
    /\ input = <<"a", "=", " ", "a", " ", "=">>
    /\ output.commands[1].errs = 1
    /\ output.commands[1].args = <<<<"a">>, <<"=">>>>

(***************************************************************************)
(* Sessions of one line: idx with its arguments                             *)
(***************************************************************************)
\* the most indexes given to idx
MaxIndexes == 3

\* the JSON lists given to idx: [0,[1,2]] and [[[5]]]
IdxLists == {<<"[", "0", ", ", "[", "1", ", ", "2", "]", "]">>,
             <<"[", "[", "[", "5", "]", "]", "]">>}

\* the index tokens: 0 and 1
IndexSeqs == Texts({"0", "1"}, MaxIndexes)

RECURSIVE Spaced(_)
\* the tokens toks, each after a space
Spaced(toks) ==
    IF toks = <<>> THEN <<>> ELSE <<" ", Head(toks)>> \o Spaced(Tail(toks))

\* idx ^L i1 ... in
IdxLine(L, is) == <<"i", "d", "x", " ", "^">> \o L \o Spaced(is)

\* idx a $Q
L_idx_a_Q == <<"i", "d", "x", " ", "a", " ", "$", "Q">>
\* idx ^[1] ^[0]
L_idx_list_list == <<"i", "d", "x", " ", "^", "[", "1", "]", " ", "^", "[", "0", "]">>

OneLines ==
    {IdxLine(L, is) : L \in IdxLists, is \in IndexSeqs}
        \cup {L_idx_a_b, L_idx_a_Q, L_idx_list_list}

\* the first line of a session
ReadFirstLine(l) == nread = 0 /\ ReadLine(l)

NextLine ==
    \/ \E l \in OneLines : ReadFirstLine(l)
    \/ RunStage
    \/ PrintResult

SpecLine == Init /\ [][NextLine]_vars

\* the value of the index token tok
IndexOf(tok) == DigitValue(tok)

RECURSIVE InRange(_, _)
\* the indexes is can be followed from d: none is past the end of its list
InRange(d, is) ==
    \/ is = <<>>
    \/ d.t # "list"
    \/ /\ IndexOf(Head(is)) < Len(d.v)
       /\ InRange(d.v[IndexOf(Head(is)) + 1], Tail(is))

RECURSIVE Descend(_, _)
\* the element that the indexes is lead to from d, stopping at the first
\* element that is not a list
Descend(d, is) ==
    IF is = <<>> \/ d.t # "list" THEN d
    ELSE Descend(d.v[IndexOf(Head(is)) + 1], Tail(is))

\* C15: idx L i1 ... in descends the list L through the indexes in order,
\* stops at the first element that is not a list and returns it, and returns
\* L itself when no index is given; idx ^[0,[1,2]] 1 0 returns 1
IdxDescends ==
    \A L \in IdxLists, is \in IndexSeqs :
        (/\ pc = "print"
         /\ line = IdxLine(L, is)
         /\ InRange(json_loads(L).val, is))
            => last_result = Descend(json_loads(L).val, is)

\* the part of C15 that holds: the descent through at most two indexes, and
\* through more when it stops before the third
IdxDescendsTwoLevels ==
    \A L \in IdxLists, is \in IndexSeqs :
        (/\ pc = "print"
         /\ line = IdxLine(L, is)
         /\ InRange(json_loads(L).val, is)
         /\ (Len(is) <= 2 \/ Descend(json_loads(L).val, SubSeq(is, 1, 2)).t # "list"))
            => last_result = Descend(json_loads(L).val, is)

\* the tokens after the command name of the stage about to run, and the
\* value that positional token i resolves to
StageTokens == Tail(commands[idx].args)
ResolvedToken(i) == cleanup_type(StageTokens[i], last_result, env)

\* positional token i is paired with a declared scalar type, and
\* constructing it from the resolved value raises kind
ConstructionRaises(i, kind) ==
    /\ i <= Len(Hints(Head(commands[idx].args)))
    /\ ResolvedToken(i).raised = ""
    /\ Hints(Head(commands[idx].args))[i][2] \in {Ty("int"), Ty("str"), Ty("bool")}
    /\ Construct(Hints(Head(commands[idx].args))[i][2].name,
                 Deref(ResolvedToken(i).val, env)).raised = kind

\* the stage has no keyword arguments, and token i is the only one whose
\* resolution or coercion fails in another way than with a ValueError
OnlyValueErrors ==
    /\ commands[idx].kwargs = <<>>
    /\ \A j \in 1..Len(StageTokens) :
           /\ j > Len(Hints(Head(commands[idx].args))) \/ ResolvedToken(j).raised = ""
           /\ ~ConstructionRaises(j, "TypeError")

\* C16 (as claimed): when constructing the declared type fails, an
\* invalid-value error is reported, the value is used as it was resolved and
\* the handler is still called: a coercion failure never aborts the stage
CoercionFailureNeverAborts ==
    [][StageRuns =>
           \A i \in 1..Len(StageTokens), kind \in {"ValueError", "TypeError"} :
               ConstructionRaises(i, kind) =>
                   /\ \E k \in 1..Len(out') : out'[k] = MsgInvalid
                   /\ call'.name = Head(commands[idx].args)
                   /\ Len(call'.args) >= i
                   /\ call'.args[i] = ResolvedToken(i).val]_vars

\* C16 (amended): when constructing the declared type fails with a
\* ValueError, an invalid-value error is reported, the value is used as it
\* was resolved and the handler is still called; when it fails with a
\* TypeError the stage is aborted: an error is reported, the handler is
\* not called and the result is None
CoercionValueErrorNeverAborts ==
    [][StageRuns =>
           \A i \in 1..Len(StageTokens) :
               /\ (ConstructionRaises(i, "ValueError") /\ OnlyValueErrors) =>
                      /\ \E k \in 1..Len(out') : out'[k] = MsgInvalid
                      /\ call'.name = Head(commands[idx].args)
                      /\ Len(call'.args) >= i
                      /\ call'.args[i] = ResolvedToken(i).val
               /\ ConstructionRaises(i, "TypeError") =>
                      /\ Len(out') > 0
                      /\ out'[Len(out')] = MsgError
                      /\ call' = NoCall
                      /\ last_result' = None]_vars

\* idx a b has called idx with the token b as it was, after the
\* invalid-value error
CoercionFailureSeen ==
    /\ line = L_idx_a_b
    /\ call.name = N_idx
    /\ call.args = <<PyList(<<PyStr(<<"a">>)>>), PyStr(<<"b">>)>>
    /\ \E k \in 1..Len(out) : out[k] = MsgInvalid

(***************************************************************************)
(* cleanup_type on its own: every short token over a few characters        *)
(***************************************************************************)
\* the longest token resolved
MaxTokenLen == 4

TokenChars == {"_", "$", "\"", "^", "1", "X", SuperscriptTwo, "\\"}

Tokens == Texts(TokenChars, MaxTokenLen) \cup {Chars_False, Chars_false}

\* an Environment after `set X 10` and `set 1 $Q`: X is 10 and the variable
\* named 1 is None
DefinedEnv == DictPut(DictPut(InitEnv, K_X, PyInt(10)), PyStr(<<"1">>), None)

\* the same after SILENT was set to True
SilentEnv == DictPut(DefinedEnv, K_SILENT, PyBool(TRUE))

\* the last result and the Environment at the time a token is resolved
ResolveContexts ==
    {[last |-> PyInt(7), env |-> DefinedEnv], [last |-> None, env |-> SilentEnv]}

InitResolve ==
    /\ ShellStarted(<<>>)
    /\ input \in {[arg |-> a, last |-> c.last, env |-> c.env] :
                     a \in Tokens, c \in ResolveContexts}
    /\ output = None

\* cleanup_type(arg), with self.last_result and self.env as input gives them
Resolve ==
    /\ output = None
    /\ output' = cleanup_type(input.arg, input.last, input.env)
    /\ UNCHANGED <<shell, input>>

NextResolve == Resolve

SpecResolve == InitResolve /\ [][NextResolve]_vars

\* what a resolution makes of a token: the exception that ended it or "",
\* the value, and whether the undefined-variable warning was printed
Resolution(raised, val, warned) == [raised |-> raised, val |-> val, warned |-> warned]

ResolutionOf(r) == Resolution(r.raised, r.val, r.warned)

\* the SILENT flag of the Environment e
Silent(e) == Truthy(DictGet(e, K_SILENT, PyBool(FALSE)))

\* the token is wrapped in a quote character
Wrapped(arg) == Len(arg) >= 2 /\ arg[1] \in QuoteChars /\ arg[Len(arg)] = arg[1]

\* the rules of C17 from the rule for ^ on
ClaimedLiteral(arg) ==
    IF StartsWith(arg, "^")
    THEN Resolution(json_loads(Tail(arg)).raised, json_loads(Tail(arg)).val, FALSE)
    ELSE IF is_falsey_str(arg) THEN Resolution("", PyBool(FALSE), FALSE)
    ELSE IF IsDecimal(arg) THEN Resolution("", PyInt(DigitsValue(arg)), FALSE)
    ELSE Resolution("", PyStr(arg), FALSE)

\* the rules of C17, the first that matches
ClaimedResolution(arg, last, e) ==
    IF arg = <<"_">> THEN Resolution("", last, FALSE)
    ELSE IF StartsWith(arg, "$")
    THEN (IF DictHas(e, PyStr(Tail(arg)))
          THEN Resolution("", DictGet(e, PyStr(Tail(arg)), None), FALSE)
          ELSE Resolution("", None, ~Silent(e)))
    ELSE IF Wrapped(arg) THEN Resolution("", PyStr(StripEnds(arg)), FALSE)
    ELSE ClaimedLiteral(arg)

\* the token has only numeric characters, not all of them decimal digits,
\* and no earlier rule of C17 matches it
NumeralOnly(arg) ==
    /\ IsNumeric(arg)
    /\ ~IsDecimal(arg)

\* C17 (as claimed): a token resolves by the first rule that matches: _ is
\* the last result; $name the value of name, or None with a warning (unless
\* SILENT) when name is not in the Environment; a token wrapped in a quote
\* character the content between the delimiters; ^ the rest parsed as JSON;
\* the empty string, False and false the boolean False; numeric characters
\* only an integer; anything else the string unchanged.  Only malformed
\* JSON fails
ResolvedByClaimedRules ==
    output # None =>
        IF NumeralOnly(input.arg)
        THEN output.raised = "" /\ output.val.t = "int"
        ELSE ResolutionOf(output) = ClaimedResolution(input.arg, input.last, input.env)

\* the rules of cleanup_type from the rule for ^ on
AmendedLiteral(arg) ==
    IF StartsWith(arg, "^")
    THEN (IF StartsWithQuote(Tail(arg))
          THEN Resolution(json_loads(StripEnds(Tail(arg))).raised,
                          json_loads(StripEnds(Tail(arg))).val, FALSE)
          ELSE Resolution(json_loads(Tail(arg)).raised, json_loads(Tail(arg)).val, FALSE))
    ELSE IF is_falsey_str(arg) THEN Resolution("", PyBool(FALSE), FALSE)
    ELSE IF IsDecimal(arg) THEN Resolution("", PyInt(DigitsValue(arg)), FALSE)
    ELSE IF IsNumeric(arg) THEN Resolution("ValueError", None, FALSE)
    ELSE Resolution("", PyStr(arg), FALSE)

AmendedResolution(arg, last, e) ==
    IF arg = <<"_">> THEN Resolution("", last, FALSE)
    ELSE IF StartsWith(arg, "$")
    THEN Resolution("", DictGet(e, PyStr(Tail(arg)), None),
                    DictGet(e, PyStr(Tail(arg)), None) = None /\ ~Silent(e))
    ELSE IF StartsWithQuote(arg)
    THEN Resolution("", PyStr(SubSeq(arg, 2, Len(arg) - 1)), FALSE)
    ELSE AmendedLiteral(arg)

\* C17 (amended): a token resolves by the first rule that matches: _ is the
\* last result; $name the value of name, or None when name is not in the
\* Environment, with a warning (unless SILENT) whenever that value is None;
\* a token that starts with a quote character is the token without its
\* first and last character; ^ the rest, without its first and last
\* character when it starts with a quote character, parsed as JSON; the
\* empty string, False and false the boolean False; numeric characters only
\* the integer they spell; anything else the string unchanged.  Malformed
\* JSON fails, and so does a numeral that is not made of decimal digits
ResolvedByFirstRule ==
    output # None =>
        ResolutionOf(output) = AmendedResolution(input.arg, input.last, input.env)

\* the token $1 was resolved with SILENT unset: the variable is in the
\* Environment, its value is None, and the warning was printed
ResolvedNoneValueSeen ==
    /\ output # None
    /\ input.arg = <<"$", "1">>
    /\ DictHas(input.env, PyStr(<<"1">>))
    /\ output.val = None
    /\ output.warned

\* C18 (as claimed): a token that the resolver treats as a quoted literal
\* resolves to the content between its opening and its closing delimiter
\* with the escapes undone; no character of the content is lost and the
\* token can be recovered from the value and the quote character
QuotedLiteralUnescaped ==
    (output # None /\ StartsWithQuote(input.arg)) =>
        /\ Wrapped(input.arg)
        /\ output.val = PyStr(Unescaped(SubSeq(input.arg, 2, Len(input.arg) - 1)))

\* C18 (amended): a token that the resolver treats as a quoted literal (one
\* that starts with a quote character) resolves to the token without its
\* first and last character, the escapes left as they were typed; when the
\* token ends with the quote character it starts with, no character of the
\* content is lost and the token is the value between two quote characters
QuotedLiteralStripped ==
    (output # None /\ StartsWithQuote(input.arg)) =>
        /\ output.raised = ""
        /\ output.val = PyStr(SubSeq(input.arg, 2, Len(input.arg) - 1))
        /\ Wrapped(input.arg) =>
               <<input.arg[1]>> \o output.val.v \o <<input.arg[1]>> = input.arg

\* the token "\X" was resolved: the backslash is part of the value
QuotedEscapeSeen ==
    /\ output # None
    /\ input.arg = <<"\"", "\\", "X", "\"">>
    /\ output.val = PyStr(<<"\\", "X">>)

(***************************************************************************)
(* regex_lex on its own: every short line over a few characters            *)
(***************************************************************************)
\* the longest line lexed
MaxLexLen == 5

LexChars == {"a", " ", "|", "\"", "'", "\\"}

InitLex ==
    /\ ShellStarted(<<>>)
    /\ input \in Texts(LexChars, MaxLexLen)
    /\ output = None

\* words = regex_lex(line)
Lex ==
    /\ output = None
    /\ output' = [words |-> regex_lex(input)]
    /\ UNCHANGED <<shell, input>>

NextLex == Lex

SpecLex == InitLex /\ [][NextLex]_vars

\* the position of the quote q that closes a quoted run whose content starts
\* at p: the first q that is not escaped by a backslash, 0 if there is none
RECURSIVE ClosingQuote(_, _, _)
ClosingQuote(s, p, q) ==
    IF p > Len(s) THEN 0
    ELSE IF s[p] = "\\" THEN ClosingQuote(s, p + 2, q)
    ELSE IF s[p] = q THEN p
    ELSE ClosingQuote(s, p + 1, q)

\* the position of the first quote character of s, at or after p and outside
\* the quoted runs, that has no closing quote; 0 if every quote is closed
RECURSIVE FirstUnterminated(_, _)
FirstUnterminated(s, p) ==
    IF p > Len(s) THEN 0
    ELSE IF s[p] \notin QuoteChars THEN FirstUnterminated(s, p + 1)
    ELSE IF ClosingQuote(s, p + 1, s[p]) = 0 THEN p
    ELSE FirstUnterminated(s, ClosingQuote(s, p + 1, s[p]) + 1)

\* the token cur, if it has any character
Flushed(cur) == IF cur = <<>> THEN <<>> ELSE <<cur>>

\* the tokens of s from p on as the lexer is described, cur being the token
\* under way: whitespace ends a token, a pipe ends a token and is a token, a
\* quoted run goes into the token with its delimiters, and a quote that is
\* never closed takes the rest of the line
RECURSIVE TokensFrom(_, _, _)
TokensFrom(s, p, cur) ==
    IF p > Len(s) THEN Flushed(cur)
    ELSE IF s[p] \in Whitespace THEN Flushed(cur) \o TokensFrom(s, p + 1, <<>>)
    ELSE IF s[p] = "|" THEN Flushed(cur) \o <<Pipe>> \o TokensFrom(s, p + 1, <<>>)
    ELSE IF s[p] \notin QuoteChars THEN TokensFrom(s, p + 1, Append(cur, s[p]))
    ELSE IF ClosingQuote(s, p + 1, s[p]) = 0 THEN <<cur \o SubSeq(s, p, Len(s))>>
    ELSE TokensFrom(s, ClosingQuote(s, p + 1, s[p]) + 1,
                    cur \o SubSeq(s, p, ClosingQuote(s, p + 1, s[p])))

\* C21: on a line whose quotes are all closed, the lexer gives the tokens in
\* order: every pipe outside the quoted runs is a token of its own, a quoted
\* run is inside one token with its delimiters and with the whitespace and
\* the pipes it contains, and the tokens are otherwise split at whitespace
LexedAsDescribed ==
    (output # None /\ FirstUnterminated(input, 1) = 0) =>
        output.words = TokensFrom(input, 1, <<>>)

\* the line a|" " was lexed: a pipe without whitespace around it and a
\* quoted blank
LexedQuotedBlankSeen ==
    /\ output # None
    /\ input = <<"a", "|", "\"", " ", "\"">>
    /\ output.words = <<<<"a">>, Pipe, <<"\"", " ", "\"">>>>

\* the token tok ends with the text tail
EndsWith(tok, tail) ==
    /\ Len(tok) >= Len(tail)
    /\ SubSeq(tok, Len(tok) - Len(tail) + 1, Len(tok)) = tail

\* C22: on a line with a quote that is never closed, the opening quote and
\* everything after it, whitespace included, are one token, the last one
UnterminatedQuoteToEndOfLine ==
    (output # None /\ FirstUnterminated(input, 1) # 0) =>
        /\ output.words # <<>>
        /\ EndsWith(output.words[Len(output.words)],
                    SubSeq(input, FirstUnterminated(input, 1), Len(input)))

(***************************************************************************)
(* apply_args on its own: one stage of a few tokens for several commands   *)
(***************************************************************************)
\* the most tokens after the command name
MaxBindTokens == 2

T_a == <<"a">>
T_7 == <<"7">>
T_key_k == <<"k", "e", "y", "=", "k">>
T_value_7 == <<"v", "a", "l", "u", "e", "=", "7">>
T_value_last == <<"v", "a", "l", "u", "e", "=", "_">>
T_name_f == <<"n", "a", "m", "e", "=", "f">>
T_overwrite_1 == <<"o", "v", "e", "r", "w", "r", "i", "t", "e", "=", "1">>
T_x_1 == <<"x", "=", "1">>

BindTokens ==
    {T_a, T_7, Underscore, T_key_k, T_value_7, T_value_last, T_name_f, T_overwrite_1,
     T_x_1}

BindCommands == {N_set, N_test, N_echo, N_loadenv, N_saveenv, N_help}

\* title="The Hobbit" author=Tolkien year=1937 price=9.99
BookTokens ==
    << <<"t", "i", "t", "l", "e", "=", "\"", "T", "h", "e", " ", "H", "o", "b", "b", "i",
         "t", "\"">>,
       <<"a", "u", "t", "h", "o", "r", "=", "T", "o", "l", "k", "i", "e", "n">>,
       <<"y", "e", "a", "r", "=", "1", "9", "3", "7">>,
       <<"p", "r", "i", "c", "e", "=", "9", ".", "9", "9">> >>

\* the sequences of at most n elements of S
RECURSIVE SeqsUpTo(_, _)
SeqsUpTo(S, n) ==
    IF n = 0 THEN {<<>>}
    ELSE LET shorter == SeqsUpTo(S, n - 1)
         IN  shorter \cup {Append(t, c) : t \in shorter, c \in S}

RECURSIVE Joined(_)
\* the tokens toks, each after a space
Joined(toks) ==
    IF toks = <<>> THEN <<>> ELSE <<" ">> \o Head(toks) \o Joined(Tail(toks))

\* the result of the stage before, for a piped stage
BindLast == PyInt(42)

InitBind ==
    /\ ShellStarted(<<>>)
    /\ input \in
          [cmd : BindCommands, toks : SeqsUpTo(BindTokens, MaxBindTokens),
           is_piped : BOOLEAN]
          \cup {[cmd |-> N_create_book, toks |-> BookTokens, is_piped |-> FALSE]}
    /\ output = None

\* exec up to the call of the method: args.pop(0), then apply_args on the
\* stage st of the line
BoundStage(st, is_piped) ==
    [stage |-> st,
     a |-> apply_args(Hints(Head(st.args)), Tail(st.args), st.kwargs, is_piped,
                      BindLast, env)]

Bind ==
    /\ output = None
    /\ output' = BoundStage(parse_argv(input.cmd \o Joined(input.toks), FALSE)[1],
                            input.is_piped)
    /\ UNCHANGED <<shell, input>>

NextBind == Bind

SpecBind == InitBind /\ [][NextBind]_vars

\* the stage that was bound: its positional tokens after the command name,
\* its keywords, the parameters its handler declares
BindArgs == Tail(output.stage.args)
BindKwargs == output.stage.kwargs
BindParams == Signature(input.cmd).params

\* the keyword tokens of the stage name the parameter p
NamedByKeyword(p) == \E i \in 1..Len(BindKwargs) : PyStr(BindKwargs[i][1]) = p

\* the stage's handler declares the parameter p
IsParam(p) == \E j \in 1..Len(BindParams) : BindParams[j] = p

\* has p a declared type
IsTyped(p) == DictHas(Hints(input.cmd), p)

\* the value of the token tok for the parameter p: resolved and coerced to
\* the declared type of p
ValueFor(p, tok) == convert_type(DictGet(Hints(input.cmd), p, None), tok, BindLast, env).val

\* the declared parameters that no keyword names, in declaration order
BindRemaining == SelectSeq(BindParams, LAMBDA p : ~NamedByKeyword(p))

\* the keyword i of the stage is passed under its name
KeywordPassed(i) == DictHas(output.a.conv_kwargs, PyStr(BindKwargs[i][1]))

\* C23: each keyword whose name is a declared parameter is passed under that
\* name, coerced to the parameter's declared type, and the parameter leaves
\* the pool; the positional arguments are paired in order with the declared
\* parameters that remain and coerced to their types
BoundAsDeclared ==
    (output # None /\ output.a.raised = "") =>
        /\ \A i \in 1..Len(BindKwargs) :
               IsParam(PyStr(BindKwargs[i][1])) =>
                   /\ KeywordPassed(i)
                   /\ IsTyped(PyStr(BindKwargs[i][1])) =>
                          DictGet(output.a.conv_kwargs, PyStr(BindKwargs[i][1]), None)
                              = ValueFor(PyStr(BindKwargs[i][1]), BindKwargs[i][2])
        /\ \A j \in 1..Len(BindArgs) :
               (j <= Len(BindRemaining) /\ IsTyped(BindRemaining[j])) =>
                   output.a.conv_args[j] = ValueFor(BindRemaining[j], BindArgs[j])

\* the same for the parameters that have a type annotation, and the example
\* of create_book: no positional argument, title and author strings, year an
\* integer and price a float
BoundAsAnnotated ==
    (output # None /\ output.a.raised = "") =>
        /\ \A i \in 1..Len(BindKwargs) :
               (IsParam(PyStr(BindKwargs[i][1])) /\ IsTyped(PyStr(BindKwargs[i][1]))) =>
                   /\ KeywordPassed(i)
                   /\ DictGet(output.a.conv_kwargs, PyStr(BindKwargs[i][1]), None)
                          = ValueFor(PyStr(BindKwargs[i][1]), BindKwargs[i][2])
        /\ \A j \in 1..Len(BindArgs) :
               (j <= Len(BindRemaining) /\ IsTyped(BindRemaining[j])) =>
                   output.a.conv_args[j] = ValueFor(BindRemaining[j], BindArgs[j])
        /\ input.cmd = N_create_book =>
               /\ output.a.conv_args = <<>>
               /\ output.a.conv_kwargs =
                      << <<P_title, PyStr(<<"T", "h", "e", " ", "H", "o", "b", "b", "i", "t">>)>>,
                         <<P_author, PyStr(<<"T", "o", "l", "k", "i", "e", "n">>)>>,
                         <<P_year, PyInt(1937)>>,
                         <<P_price, PyFloat(<<"9", ".", "9", "9">>)>> >>

\* C24: every positional argument beyond the declared parameters left to
\* bind is passed as the token that was typed, neither resolved nor coerced,
\* at its place after the bound ones
SurplusPassedRaw ==
    (output # None /\ output.a.raised = "") =>
        \A j \in 1..Len(BindArgs) :
            j > Len(BindRemaining) => output.a.conv_args[j] = PyStr(BindArgs[j])

\* what apply_args does: the positional arguments beyond the type hints left
\* (the annotated parameters that no keyword named, and the return
\* annotation) are passed as they were typed
SurplusBeyondHintsRaw ==
    (output # None /\ output.a.raised = "") =>
        \A j \in 1..Len(BindArgs) :
            j > Len(output.a.hints) => output.a.conv_args[j] = PyStr(BindArgs[j])

\* the token _ is among the arguments of the stage that was bound
UnderscoreTyped ==
    \/ \E j \in 1..Len(BindArgs) : BindArgs[j] = Underscore
    \/ \E i \in 1..Len(BindKwargs) : BindKwargs[i][2] = Underscore

\* C28: in a piped stage, a token _ anywhere among the arguments (a bound or
\* a surplus positional, the value of any keyword) is replaced by the result
\* of the stage before, and that result is not appended as well
UnderscoreReplacedEverywhere ==
    (output # None /\ output.a.raised = "" /\ input.is_piped /\ UnderscoreTyped) =>
        /\ Len(output.a.conv_args) = Len(BindArgs)
        /\ \A j \in 1..Len(BindArgs) :
               BindArgs[j] = Underscore => output.a.conv_args[j] # PyStr(Underscore)
        /\ \A i \in 1..Len(BindKwargs) :
               BindKwargs[i][2] = Underscore =>
                   /\ KeywordPassed(i)
                   /\ DictGet(output.a.conv_kwargs, PyStr(BindKwargs[i][1]), None)
                          # PyStr(Underscore)

\* what apply_args does: the result of the stage before is appended to the
\* arguments of a piped stage unless a token _ was resolved while binding
PipedValueAppendedUnlessResolved ==
    (output # None /\ output.a.raised = "") =>
        Len(output.a.conv_args) =
            Len(BindArgs) + (IF input.is_piped /\ ~output.a.underscore THEN 1 ELSE 0)

(***************************************************************************)
(* Keywords on the way to the handler, in a session                        *)
(***************************************************************************)
\* the stage at idx has a keyword that names a parameter its handler declares
DeclaredKeyword(i) ==
    /\ i \in 1..Len(commands[idx].kwargs)
    /\ \E j \in 1..Len(Signature(Head(commands[idx].args)).params) :
           Signature(Head(commands[idx].args)).params[j] = PyStr(commands[idx].kwargs[i][1])

\* the step printed an error
ErrorReported(printed) ==
    \E k \in 1..Len(printed) :
        printed[k] \in {MsgError, MsgCommandError, MsgInvalid, MsgUnknown}

\* C29: a keyword typed on the line whose name the handler declares as a
\* parameter, annotated or not, reaches the handler under its name or an
\* error is reported: it is never dropped in silence
DeclaredKeywordNeverDropped ==
    [][StageRuns =>
          \A i \in 1..Len(commands[idx].kwargs) :
              DeclaredKeyword(i) =>
                  \/ ErrorReported(out')
                  \/ DictHas(call'.kwargs, PyStr(commands[idx].kwargs[i][1]))]_vars

\* what apply_args does: the keywords that name an annotated parameter
\* reach the handler or an error is reported
AnnotatedKeywordNeverDropped ==
    [][StageRuns =>
          \A i \in 1..Len(commands[idx].kwargs) :
              DictHas(Hints(Head(commands[idx].args)), PyStr(commands[idx].kwargs[i][1])) =>
                  \/ ErrorReported(out')
                  \/ DictHas(call'.kwargs, PyStr(commands[idx].kwargs[i][1]))]_vars

(***************************************************************************)
(* Lines without a stage to execute                                        *)
(***************************************************************************)
\* this step reads a line
LineRead == pc = "read" /\ nread' = nread + 1

\* C30: only an empty line repeats the last command: a line that is not
\* empty and parses to no stage (blanks only, pipes only) executes no
\* command, and a stage of keywords without a positional token executes no
\* command, ends the line and leaves the last result as it was
OnlyEmptyLineRepeats ==
    [][/\ (LineRead /\ line' # <<>> /\ parse_argv(line', FALSE) = <<>>) =>
              commands' = <<>>
       /\ (pc = "stage" /\ Len(commands[idx].args) = 0) =>
              (call' = NoCall /\ last_result' = last_result /\ pc' = "print")]_vars

\* what run() does: every line that parses to no stage is executed as the
\* previous command, if there is one
StagelessLineRepeats ==
    [][(LineRead /\ parse_argv(line', FALSE) = <<>> /\ previous_command # None) =>
              commands' = parse_argv(previous_command.v, FALSE)]_vars

(***************************************************************************)
(* completer on its own: the TAB key at the end of a line being typed      *)
(***************************************************************************)
\* the most tokens after the first word of the line
MaxCompleteTokens == 3

T_k == <<"k">>
T_var_P == <<"$", "P">>
T_key_1 == <<"k", "e", "y", "=", "1">>
T_key_var_P == <<"k", "e", "y", "=", "$", "P">>
T_value_var_P == <<"v", "a", "l", "u", "e", "=", "$", "P">>
T_eq_a == <<"=", "a">>

CompleteTokens == {T_a, T_k, T_var_P, T_key_1, T_key_var_P, T_value_var_P, T_eq_a, Pipe}

\* the first word of the line: two commands, the command with a completion
\* of its own, and a word that is no command
N_nope == <<"n", "o", "p", "e">>
CompleteWords == {N_set, N_loadenv, N_help, N_nope}

\* the line buffer: the word and the tokens, after a blank if lead, before
\* a blank if blank
LineBuffer(in) ==
    (IF in.lead THEN <<" ">> ELSE <<>>) \o in.cmd \o Joined(in.toks)
        \o (IF in.blank THEN <<" ">> ELSE <<>>)

InitComplete ==
    /\ ShellStarted(<<>>)
    /\ input \in
          [cmd : CompleteWords, toks : SeqsUpTo(CompleteTokens, MaxCompleteTokens),
           blank : BOOLEAN, lead : BOOLEAN]
    /\ output = None

\* the states readline asks for: one more than the longest list of candidates
AskedStates == 0..Len(list_commands)

\* readline calls completer(text, state) for state 0, 1, 2, ..., text being
\* the line from get_begidx() on
Completed(buf, text) ==
    [text |-> text,
     answers |-> [s \in 1..(Len(list_commands) + 1) |-> completer(buf, text, s - 1, env)]]

Complete ==
    /\ output = None
    /\ output' = Completed(LineBuffer(input),
                           SubSeq(LineBuffer(input), get_begidx(LineBuffer(input)) + 1,
                                  Len(LineBuffer(input))))
    /\ UNCHANGED <<shell, input>>

NextComplete == Complete

SpecComplete == InitComplete /\ [][NextComplete]_vars

\* the candidates the completer gave, in the order of the states asked
Answers == output.answers
Candidates == SelectSeq([s \in 1..Len(Answers) |-> Answers[s].val], LAMBDA v : v # None)

\* C25: for a line and its partial text the completer returns, for the
\* indexes 0, 1, 2, ..., the elements of one list of candidates, each once,
\* and no candidate for every index at or past the end of the list
AnswersFromOneList ==
    output # None =>
        /\ \A s \in 1..Len(Answers) : Answers[s].raised = ""
        /\ \A s, u \in 1..Len(Answers) :
               (s < u /\ Answers[u].val # None) =>
                   (Answers[s].val # None /\ Answers[s].val # Answers[u].val)
        /\ Answers[Len(Answers)].val = None

\* what the completer does: the same, for every index at which it returns
AnswersFromOneListOrRaised ==
    output # None =>
        /\ \A s, u \in 1..Len(Answers) : Answers[s].raised = Answers[u].raised
        /\ \A s, u \in 1..Len(Answers) :
               (s < u /\ Answers[u].val # None) =>
                   (Answers[s].val # None /\ Answers[s].val # Answers[u].val)
        /\ Answers[Len(Answers)].val = None

\* the line typed, without the blanks it starts with, and its last stage
TypedLine == LStrip(LineBuffer(input))
TypedStages == GroupStages(regex_lex(TypedLine), <<>>, FALSE)
TypedStage == TypedStages[Len(TypedStages)]
TypedArgs == Tail(parse_argv(TypedLine, TRUE)[Len(TypedStages)].args)
TypedKwargs == parse_argv(TypedLine, TRUE)[Len(TypedStages)].kwargs
EndsBlank == TypedLine[Len(TypedLine)] = " "

\* the last stage of the line starts with a command that has no completion
\* of its own, and at least one argument follows it
ArgumentOfPlainCommand ==
    /\ TypedStages # <<>>
    /\ get_begidx(LineBuffer(input)) > Len(LineBuffer(input)) - Len(TypedLine)
    /\ IsKeptPositional(Head(TypedStage))
    /\ get_method(Head(TypedStage))
    /\ Head(TypedStage) # N_help
    /\ Len(TypedArgs) + Len(TypedKwargs) > 0

\* the last token of the line is a keyword and the cursor is right behind it
KeywordInProgress ==
    /\ ArgumentOfPlainCommand
    /\ ~EndsBlank
    /\ IsKeptKeyword(TypedStage[Len(TypedStage)])

\* the positional state: an argument of a command is being typed that is
\* neither a keyword in progress nor a variable
PositionalState ==
    /\ ArgumentOfPlainCommand
    /\ ~KeywordInProgress
    /\ ~(~EndsBlank /\ StartsWith(TypedStage[Len(TypedStage)], "$"))

\* the partial token, and how many positional arguments are complete
PartialToken == IF EndsBlank THEN <<>> ELSE TypedArgs[Len(TypedArgs)]
PositionalsTyped == IF EndsBlank THEN Len(TypedArgs) ELSE Len(TypedArgs) - 1

\* the declared parameters of the command that no keyword of the stage binds
UnboundNames ==
    SelectSeq(ParameterNames(Head(TypedStage)), LAMBDA p : ~DictHas(TypedKwargs, p))

\* C26: in the positional state of a command without a completion of its
\* own the candidates are the declared parameters not bound as keywords
\* whose position is at or after the number of positional arguments typed,
\* those that start with the partial token, or all of them when the line
\* ends in a blank
PositionalCandidates ==
    (output # None /\ PositionalState /\ (EndsBlank \/ IsKeptPositional(TypedStage[Len(TypedStage)]))) =>
        Candidates =
            [j \in 1..Len(SelectSeq(SubSeq(UnboundNames, PositionalsTyped + 1, Len(UnboundNames)),
                                    LAMBDA a : IsPrefix(PartialToken, a))) |->
                PyStr(SelectSeq(SubSeq(UnboundNames, PositionalsTyped + 1, Len(UnboundNames)),
                                LAMBDA a : IsPrefix(PartialToken, a))[j])]

\* the same while a token without = is being typed: on a line that does not
\* end in a blank the last positional token is the partial one
PositionalCandidatesOfPartial ==
    (output # None /\ PositionalState /\ ~EndsBlank /\ EqCount(TypedStage[Len(TypedStage)]) = 0) =>
        Candidates =
            [j \in 1..Len(SelectSeq(SubSeq(UnboundNames, PositionalsTyped + 1, Len(UnboundNames)),
                                    LAMBDA a : IsPrefix(PartialToken, a))) |->
                PyStr(SelectSeq(SubSeq(UnboundNames, PositionalsTyped + 1, Len(UnboundNames)),
                                LAMBDA a : IsPrefix(PartialToken, a))[j])]

\* the value of the keyword token tok
ValueOf(tok) == SplitOn(tok, "=")[2]

\* the names of the variables of the Environment e that match the partial
\* value, which starts with $
MatchingVariables(e, value) ==
    SelectSeq([i \in 1..Len(e) |-> e[i][1]],
              LAMBDA k : IsPrefix(Tail(value), StrChars(k)))

\* C27: when the last token of the line is a keyword and the cursor is right
\* behind its value, the candidates are the variables of the Environment
\* that match the value if the value of that keyword starts with $, and
\* there is no candidate otherwise
KeywordValueCandidates ==
    (output # None /\ KeywordInProgress) =>
        Candidates =
            IF StartsWith(ValueOf(TypedStage[Len(TypedStage)]), "$")
            THEN MatchingVariables(env, ValueOf(TypedStage[Len(TypedStage)]))
            ELSE <<>>

\* the same when no keyword of the stage is typed twice
KeywordTypedOnce ==
    \A i, j \in 1..Len(TypedStage) :
        (i < j /\ IsKeptKeyword(TypedStage[i]) /\ IsKeptKeyword(TypedStage[j])) =>
            SplitOn(TypedStage[i], "=")[1] # SplitOn(TypedStage[j], "=")[1]

KeywordValueCandidatesOfNewKeyword ==
    (output # None /\ KeywordInProgress /\ KeywordTypedOnce) =>
        Candidates =
            IF StartsWith(ValueOf(TypedStage[Len(TypedStage)]), "$")
            THEN MatchingVariables(env, ValueOf(TypedStage[Len(TypedStage)]))
            ELSE <<>>

==============================================================================
